---- MODULE Spec2Model ----
(***************************************************************************)
(* Design Linter (Figma plugin): token catalog, colour / typography rule   *)
(* evaluator, scan protocol between the plugin main thread and the panel,  *)
(* and the fix applicator with its undo journal.                           *)
(*                                                                         *)
(* Conventions                                                             *)
(*   - a JS number in 0..1 (colour channel, opacity) is a fixed-point      *)
(*     integer in units of 1/Unit;                                         *)
(*   - JS arrays are 1-based sequences here;                               *)
(*   - `undefined` / null are explicit marker values;                      *)
(*   - a finding id `${node.id}-fill-color` is the pair                    *)
(*     <<node.id, "fill-color">>.                                          *)
(***************************************************************************)
EXTENDS Integers, Sequences, FiniteSets, TLC

(***************************************************************************)
(* Bounds of the model                                                     *)
(***************************************************************************)
MaxFills == 2       \* longest fill list drawn for a node of the rule runs
MaxStrokes == 1     \* longest stroke list drawn for a node of the rule runs
MaxScans == 2       \* scan requests the panel sends in one session
MaxSaves == 1       \* settings-save requests the panel sends in one session
MaxEdits == 1       \* edits the user makes to the document while the plugin runs
MaxApplies == 1     \* apply-fix requests the panel sends in one session
MaxUndos == 2       \* undo requests the panel sends in one session
MaxCalls == 5       \* calls of a resolver that one alias resolution may make
MaxMarks == 1       \* times the user marks a finding resolved or unresolved by hand

Unit == 10^6

(***************************************************************************)
(* Values                                                                  *)
(***************************************************************************)
NoOpacity == 0 - 1          \* paint.opacity === undefined
NoBinding == "<unbound>"    \* no entry in node.boundVariables.fills[i]
NoStyle == ""               \* fillStyleId === ""
NoLibrary == "<undefined>"  \* settings.dsLibraryKey === undefined
NoKey == "<none>"
NoVariable == "<null>"      \* a Variable handle that is null

Rgb(r8, g8, b8) == [r |-> (r8 * Unit) \div 255, g |-> (g8 * Unit) \div 255, b |-> (b8 * Unit) \div 255]
Blue == Rgb(91, 143, 214)
Teal == Rgb(0, 128, 128)
Green == Rgb(0, 255, 0)
Odd == Rgb(10, 10, 10)

WithAlpha(c, a) == [r |-> c.r, g |-> c.g, b |-> c.b, a |-> a]

\* Math.round(x) for x >= 0 given as the fraction num / den
RoundDiv(num, den) == (2 * num + den) \div (2 * den)

\* normalizeRgba: 8-bit channel rounding, 3-decimal alpha
normalizeRgba(color) ==
    << RoundDiv(color.r * 255, Unit), RoundDiv(color.g * 255, Unit),
       RoundDiv(color.b * 255, Unit), RoundDiv(color.a * 1000, Unit) >>

(***************************************************************************)
(* The bundled palettes (src/palettes/index.ts).  One palette is bundled;  *)
(* its content is data of the design system.                               *)
(***************************************************************************)
GeigerKey == "Geiger Design System"
OtherKey == "Clarity Components"
LibraryKeys == {NoLibrary, GeigerKey, OtherKey}

Concrete(c) == [kind |-> "rgba", r |-> c.r, g |-> c.g, b |-> c.b, a |-> Unit, id |-> NoKey]

GeigerPalette ==
    [ paintStyles |-> << [id |-> "S:1", key |-> "sk1", name |-> "Brand/Green",
                          resolvedColors |-> << WithAlpha(Green, Unit) >>] >>,
      textStyles |-> << [id |-> "T:1", name |-> "Body"] >>,
      collections |-> <<
        [ id |-> "c1", name |-> "Core",
          variables |-> <<
            [ id |-> "VariableID:1", key |-> "k1", name |-> "Primary", resolvedType |-> "COLOR",
              valuesByMode |-> << <<"m1", Concrete(Blue)>> >>,
              resolvedValues |-> << <<"m1", Concrete(Blue)>> >> ],
            [ id |-> "VariableID:2", key |-> "k2", name |-> "Accent", resolvedType |-> "COLOR",
              valuesByMode |-> << <<"m1", Concrete(Teal)>> >>,
              resolvedValues |-> << >> ] >> ] >> ]

NoPalette == [paintStyles |-> << >>, textStyles |-> << >>, collections |-> << >>]

PALETTES == [k \in {GeigerKey} |-> GeigerPalette]

\* getPaletteForLibrary: null for an undefined key and for a key without a palette
HasPalette(libraryKey) == libraryKey # NoLibrary /\ libraryKey \in DOMAIN PALETTES
getPaletteForLibrary(libraryKey) == IF HasPalette(libraryKey) THEN PALETTES[libraryKey] ELSE NoPalette

\* variables of the file itself (figma.variables.getLocalVariables()), by key
LocalVariableKeys == {"k2"}

\* the live handle the host returns for a variable key
VariableIdOfKey(key) == IF key = "k1" THEN "VariableID:1" ELSE IF key = "k2" THEN "VariableID:2" ELSE NoVariable

(***************************************************************************)
(* Catalog (dsCatalog)                                                     *)
(***************************************************************************)
RECURSIVE Flatten(_)
Flatten(seqs) == IF seqs = << >> THEN << >> ELSE Head(seqs) \o Flatten(Tail(seqs))

Range(s) == {s[i] : i \in DOMAIN s}

\* the DSVarRef of every variable of the palette, in discovery order, with the
\* set of colour keys loadDSCatalog collects for it (uniqueColors)
IsRgbaValue(v) == v.kind = "rgba"

UniqueColors(variable) ==
    LET fromResolved == {normalizeRgba(p[2]) : p \in {q \in Range(variable.resolvedValues) : IsRgbaValue(q[2])}}
        fromValues == {normalizeRgba(p[2]) : p \in {q \in Range(variable.valuesByMode) : IsRgbaValue(q[2])}}
    IN  IF variable.resolvedType # "COLOR" THEN {}
        ELSE IF fromResolved # {} THEN fromResolved
        ELSE fromValues

VarRefs(palette, libraryKey) ==
    Flatten([c \in DOMAIN palette.collections |->
        [v \in DOMAIN palette.collections[c].variables |->
            LET variable == palette.collections[c].variables[v] IN
            [ collectionKey |-> palette.collections[c].id,
              collectionName |-> palette.collections[c].name,
              variableKey |-> IF variable.key # NoKey THEN variable.key ELSE variable.id,
              variableName |-> variable.name,
              resolvedType |-> variable.resolvedType,
              libraryName |-> libraryKey,
              colors |-> UniqueColors(variable) ]]])

StyleRefs(palette, libraryKey) ==
    [s \in DOMAIN palette.paintStyles |->
        [ styleId |-> palette.paintStyles[s].id,
          styleKey |-> palette.paintStyles[s].key,
          styleName |-> palette.paintStyles[s].name,
          libraryName |-> libraryKey,
          colors |-> {normalizeRgba(c) : c \in Range(palette.paintStyles[s].resolvedColors)} ]]

SelectByKey(refs, key) == SelectSeq(refs, LAMBDA ref : key \in ref.colors)

NullCatalog == [loaded |-> FALSE, selectedLibraryKey |-> NoLibrary, varRefs |-> << >>, styleRefs |-> << >>]

\* loadDSCatalog: the catalog object assigned to DS_CATALOG.  colorsByRgba and
\* paintStylesByRgba are the maps key -> refs in discovery order; they are kept
\* as the ordered ref lists from which SelectByKey reads one key's list.
loadDSCatalog(selectedLibraryKey) ==
    LET palette == getPaletteForLibrary(selectedLibraryKey) IN
    [ loaded |-> TRUE,
      selectedLibraryKey |-> selectedLibraryKey,
      varRefs |-> VarRefs(palette, selectedLibraryKey),
      styleRefs |-> StyleRefs(palette, selectedLibraryKey) ]

\* ensureDSCatalogLoaded: reload when absent or when the selected library changed
ensureDSCatalogLoaded(catalog, selectedLibraryKey) ==
    IF ~catalog.loaded \/ catalog.selectedLibraryKey # selectedLibraryKey
    THEN loadDSCatalog(selectedLibraryKey)
    ELSE catalog

NullMatch == [null |-> TRUE, refs |-> << >>]

\* matchColor / matchPaintStyle: `map.get(key) || null`
matchColor(catalog, color) ==
    IF ~catalog.loaded THEN NullMatch
    ELSE LET refs == SelectByKey(catalog.varRefs, normalizeRgba(color)) IN
         IF refs = << >> THEN NullMatch ELSE [null |-> FALSE, refs |-> refs]

matchPaintStyle(catalog, color) ==
    IF ~catalog.loaded THEN NullMatch
    ELSE LET refs == SelectByKey(catalog.styleRefs, normalizeRgba(color)) IN
         IF refs = << >> THEN NullMatch ELSE [null |-> FALSE, refs |-> refs]

(***************************************************************************)
(* Document elements                                                       *)
(***************************************************************************)
NodeOrder == << "n1", "n2" >>     \* document-traversal order of the page's elements
NodeIds == Range(NodeOrder)

Paint(type, color, opacity, visible, bound, inferred) ==
    [type |-> type, color |-> color, opacity |-> opacity, visible |-> visible,
     bound |-> bound, inferred |-> inferred]

\* `"fills" in node`, `"strokes" in node`, `"fillStyleId" in node`, ...
HasPaints(node) == node.type \in {"FRAME", "TEXT"}
HasLayout(node) == node.type = "FRAME"

FrameNode(fills, strokes, fillStyleId, strokeStyleId) ==
    [ exists |-> TRUE, visible |-> TRUE, type |-> "FRAME",
      fills |-> fills, strokes |-> strokes,
      fillStyleId |-> fillStyleId, strokeStyleId |-> strokeStyleId,
      textStyleId |-> NoStyle, boundTypography |-> FALSE, inferredTypography |-> FALSE,
      fontSize |-> 0, itemSpacing |-> 10, padding |-> << 5, 6, 7, 9 >>, cornerRadius |-> 3 ]

TextNode(fills, textStyleId, boundTypography, inferredTypography, fontSize) ==
    [ exists |-> TRUE, visible |-> TRUE, type |-> "TEXT",
      fills |-> fills, strokes |-> << >>,
      fillStyleId |-> NoStyle, strokeStyleId |-> NoStyle,
      textStyleId |-> textStyleId, boundTypography |-> boundTypography,
      inferredTypography |-> inferredTypography,
      fontSize |-> fontSize, itemSpacing |-> 0, padding |-> << 0, 0, 0, 0 >>, cornerRadius |-> 0 ]

DefaultText == TextNode(<< >>, NoStyle, FALSE, FALSE, 14)
DefaultFrame == FrameNode(<< >>, << >>, NoStyle, NoStyle)

\* local text styles of the file (figma.getLocalTextStyles()); a text node's
\* descriptor is its font size, the other properties being equal
LocalTextStyles == << [id |-> "T:1", name |-> "Body", fontSize |-> 14] >>

textPropertiesMatch(node, style) == node.fontSize = style.fontSize

(***************************************************************************)
(* Settings (core/storage.ts, core/types.ts)                               *)
(***************************************************************************)
DEFAULT_SETTINGS ==
    [ scanScope |-> "page", strictness |-> "relaxed", dsLibraryKey |-> NoLibrary,
      ignoreHiddenFills |-> FALSE, ignoreZeroOpacity |-> FALSE,
      ignoreTransparentColors |-> FALSE, ignoreInvisibleLayers |-> "undefined" ]

\* getSettings: defaults overlaid with what is stored; defaults when the read fails
getSettings(stored, readOk) == IF readOk THEN stored ELSE DEFAULT_SETTINGS

(***************************************************************************)
(* Findings and fix payloads (core/types.ts)                               *)
(***************************************************************************)
NoPayload ==
    [ type |-> "<absent>", variableId |-> NoVariable, styleKey |-> NoKey, styleId |-> NoStyle,
      property |-> "", value |-> 0, hasFrameData |-> FALSE, frameName |-> "",
      frameText |-> << >>, libraryName |-> NoLibrary ]

\* { libraryName } : a payload object without a type
UntypedPayload(libraryName) == [NoPayload EXCEPT !.type = "<untyped>", !.libraryName = libraryName]

BindVariablePayload(variableId, property, libraryName) ==
    [NoPayload EXCEPT !.type = "bind-variable", !.variableId = variableId,
                      !.property = property, !.libraryName = libraryName]

ApplyPaintStylePayload(styleKey, property, libraryName) ==
    [NoPayload EXCEPT !.type = "apply-paint-style", !.styleKey = styleKey,
                      !.property = property, !.libraryName = libraryName]

ApplyTextStylePayload(styleId) == [NoPayload EXCEPT !.type = "apply-text-style", !.styleId = styleId]

\* consistency.spacing: { type: "update-spacing", property: "itemSpacing", value }
UpdateSpacingPayload(value) ==
    [NoPayload EXCEPT !.type = "update-spacing", !.property = "itemSpacing", !.value = value]

\* consistency.spacing: { type: "update-padding", value }
UpdatePaddingPayload(value) == [NoPayload EXCEPT !.type = "update-padding", !.value = value]

\* requiredStates: { type: "create-frame", frameData: { name, text } }
CreateFramePayload(name, text) ==
    [NoPayload EXCEPT !.type = "create-frame", !.hasFrameData = TRUE, !.frameName = name,
                      !.frameText = text]

\* an entry of the undo journal: { type, value }; value is a paint list, a
\* style id or numbers, by type
NoSnapshot == [type |-> "<null>", paints |-> << >>, id |-> NoStyle, nums |-> << >>]

NoVarRef ==
    [ collectionKey |-> NoKey, collectionName |-> "", variableKey |-> NoKey, variableName |-> "",
      resolvedType |-> "", libraryName |-> NoLibrary, colors |-> {} ]

\* paintIndex records which paint of the list the rule was evaluating; the
\* message sent to the panel has no such field
Finding(id, severity, ruleId, nodeId, message, names, canAutoFix, fixPayload, paintIndex) ==
    [ id |-> id, severity |-> severity, ruleId |-> ruleId, nodeId |-> nodeId,
      message |-> message, names |-> names, canAutoFix |-> canAutoFix,
      fixPayload |-> fixPayload, paintIndex |-> paintIndex ]

ColorSuffix(property) == IF property = "fills" THEN "fill-color" ELSE "stroke-color"
ColorRule(property) == IF property = "fills" THEN "tokens.colors.fill" ELSE "tokens.colors.stroke"

Strictness(settings) == IF settings.strictness = "strict" THEN "warn" ELSE "info"

(***************************************************************************)
(* Colour rule (core/rules/tokens.colors)                                  *)
(***************************************************************************)
HasAlpha(color) == "a" \in DOMAIN color

isEffectiveVisiblePaint(paint, settings) ==
    /\ paint.type = "SOLID"
    /\ ~(settings.ignoreHiddenFills /\ paint.visible = FALSE)
    /\ ~(settings.ignoreZeroOpacity /\ paint.opacity # NoOpacity /\ paint.opacity = 0)
    /\ ~(settings.ignoreTransparentColors /\ HasAlpha(paint.color) /\ paint.color.a = 0)

PaintsOf(node, property) == IF property = "fills" THEN node.fills ELSE node.strokes
StyleIdOf(node, property) == IF property = "fills" THEN node.fillStyleId ELSE node.strokeStyleId

\* Object.assign({}, fill.color, { a: fill.opacity ?? 1 })
PaintColor(paint) == WithAlpha(paint.color, IF paint.opacity = NoOpacity THEN Unit ELSE paint.opacity)

ImportedFinding_FixableWithoutHandle(nodeId, property, i, severity, varRef, variableId) ==
    Finding(<<nodeId, ColorSuffix(property)>>, severity, ColorRule(property), nodeId,
            "color not bound to design system token", varRef.variableName, TRUE,
            BindVariablePayload(variableId, property, varRef.libraryName), i)

\* the finding pushed once importVariableByKey has returned `variableId`
ImportedFinding(nodeId, property, i, severity, varRef, variableId) ==
    IF variableId # NoVariable
    THEN Finding(<<nodeId, ColorSuffix(property)>>, severity, ColorRule(property), nodeId,
                 "color not bound to design system token", varRef.variableName, TRUE,
                 BindVariablePayload(variableId, property, varRef.libraryName), i)
    ELSE Finding(<<nodeId, ColorSuffix(property)>>, severity, ColorRule(property), nodeId,
                 "color matches DS variable but not bound", varRef.variableName, FALSE,
                 UntypedPayload(varRef.libraryName), i)

\* the finding pushed for a colour that matches a paint style of the catalog
StyleMatchFinding(nodeId, property, i, severity, styleRef) ==
    Finding(<<nodeId, ColorSuffix(property)>>, severity, ColorRule(property), nodeId,
            "color matches DS paint style but style not applied", styleRef.styleName, TRUE,
            ApplyPaintStylePayload(styleRef.styleKey, property, styleRef.libraryName), i)

NotInSystemFinding_Configured(nodeId, property, i) ==
    Finding(<<nodeId, ColorSuffix(property)>>, "warn", ColorRule(property), nodeId,
            "Color not in design system", "", FALSE, NoPayload, i)

\* the finding pushed for a colour that matches nothing ("NOT_DS")
NotInSystemFinding(nodeId, property, i) ==
    Finding(<<nodeId, ColorSuffix(property)>>, "block", ColorRule(property), nodeId,
            "Color not in design system", "", FALSE, NoPayload, i)

\* step C of the loop body: look the colour up among variables, then paint styles
EvalUnbound(node, nodeId, property, i, settings, catalog) ==
    LET color == PaintColor(PaintsOf(node, property)[i])
        varMatches == matchColor(catalog, color)
        styleMatches == matchPaintStyle(catalog, color)
    IN  IF ~varMatches.null /\ Len(varMatches.refs) > 0
        THEN [kind |-> "import", varRef |-> varMatches.refs[1], finding |-> << >>]
        ELSE IF ~styleMatches.null /\ Len(styleMatches.refs) > 0
        THEN [kind |-> "finding", varRef |-> NoVarRef, finding |->
                << StyleMatchFinding(nodeId, property, i, Strictness(settings), styleMatches.refs[1]) >>]
        ELSE [kind |-> "finding", varRef |-> NoVarRef, finding |->
                << NotInSystemFinding(nodeId, property, i) >>]

SkipPaint == [kind |-> "skip", varRef |-> NoVarRef, finding |-> << >>]

EvalPaint_IgnoringBinding(node, nodeId, property, i, settings, catalog) ==
    IF ~isEffectiveVisiblePaint(PaintsOf(node, property)[i], settings) THEN SkipPaint
    ELSE IF StyleIdOf(node, property) # NoStyle THEN SkipPaint
    ELSE EvalUnbound(node, nodeId, property, i, settings, catalog)

\* one iteration of the fill (stroke) loop up to the call of importVariableByKey:
\* skip (not visible, bound, styled), push a finding, or import the first
\* matching variable
EvalPaint(node, nodeId, property, i, settings, catalog) ==
    IF ~isEffectiveVisiblePaint(PaintsOf(node, property)[i], settings) THEN SkipPaint
    ELSE IF PaintsOf(node, property)[i].bound # NoBinding THEN SkipPaint
    ELSE IF StyleIdOf(node, property) # NoStyle THEN SkipPaint
    ELSE EvalUnbound(node, nodeId, property, i, settings, catalog)

\* importVariableByKey up to its first host call: a cached handle, a variable
\* of the file (cached on the way), or a pending import
ImportSync(cache, varKey) ==
    IF varKey \in DOMAIN cache THEN [pending |-> FALSE, variable |-> cache[varKey], cache |-> cache]
    ELSE IF varKey \in LocalVariableKeys
         THEN [pending |-> FALSE, variable |-> VariableIdOfKey(varKey),
               cache |-> [k \in DOMAIN cache \cup {varKey} |->
                            IF k = varKey THEN VariableIdOfKey(varKey) ELSE cache[k]]]
    ELSE [pending |-> TRUE, variable |-> NoVariable, cache |-> cache]

FirstCursor == [n |-> 1, property |-> "fills", i |-> 1]
NextPaint(cur) == [cur EXCEPT !.i = @ + 1]
NextProperty(cur) ==
    IF cur.property = "fills" THEN [cur EXCEPT !.property = "strokes", !.i = 1]
    ELSE [n |-> cur.n + 1, property |-> "fills", i |-> 1]

\* checkColorTokens from cursor `cur` on, over the live document `d`, until the
\* loop ends or importVariableByKey waits for the host
RECURSIVE RunColors(_, _, _, _, _, _, _)
RunColors(nodes, d, settings, catalog, cur, findings, cache) ==
    IF cur.n > Len(nodes)
    THEN [state |-> "done", cur |-> cur, findings |-> findings, cache |-> cache, varRef |-> NoVarRef]
    ELSE LET nodeId == nodes[cur.n]
             node == d[nodeId]
         IN  IF ~HasPaints(node) \/ cur.i > Len(PaintsOf(node, cur.property))
             THEN RunColors(nodes, d, settings, catalog, NextProperty(cur), findings, cache)
             ELSE LET ev == EvalPaint(node, nodeId, cur.property, cur.i, settings, catalog) IN
                  IF ev.kind = "skip"
                  THEN RunColors(nodes, d, settings, catalog, NextPaint(cur), findings, cache)
                  ELSE IF ev.kind = "finding"
                  THEN RunColors(nodes, d, settings, catalog, NextPaint(cur),
                                 findings \o ev.finding, cache)
                  ELSE LET imp == ImportSync(cache, ev.varRef.variableKey) IN
                       IF imp.pending
                       THEN [state |-> "import", cur |-> cur, findings |-> findings,
                             cache |-> cache, varRef |-> ev.varRef]
                       ELSE RunColors(nodes, d, settings, catalog, NextPaint(cur),
                                      Append(findings,
                                             ImportedFinding(nodeId, cur.property, cur.i,
                                                             Strictness(settings), ev.varRef,
                                                             imp.variable)),
                                      imp.cache)

(***************************************************************************)
(* Typography rule (core/rules/tokens.typography.ts)                       *)
(***************************************************************************)
MatchingTextStyles(node) == SelectSeq(LocalTextStyles, LAMBDA style : textPropertiesMatch(node, style))

TypographyFinding(node, nodeId, severity) ==
    LET matching == MatchingTextStyles(node) IN
    Finding(<<nodeId, "typography">>, severity, "tokens.typography", nodeId,
            "Text not using design system typography style",
            IF matching # << >> THEN matching[1].name ELSE "",
            matching # << >>,
            IF matching # << >> THEN ApplyTextStylePayload(matching[1].id) ELSE NoPayload, 0)

RECURSIVE checkTypographyTokens(_, _, _)
checkTypographyTokens(nodes, d, severity) ==
    IF nodes = << >> THEN << >>
    ELSE LET node == d[Head(nodes)]
             rest == checkTypographyTokens(Tail(nodes), d, severity)
         IN  IF node.type # "TEXT" THEN rest
             ELSE IF node.textStyleId # NoStyle THEN rest
             ELSE IF node.boundTypography THEN rest
             ELSE IF node.inferredTypography THEN rest
             ELSE << TypographyFinding(node, Head(nodes), severity) >> \o rest

\* getAllNodesToScan over the page: elements in traversal order, hidden ones
\* left out unless ignoreInvisibleLayers is false
getAllNodesToScan(d, settings) ==
    SelectSeq(NodeOrder, LAMBDA n : d[n].exists /\ (settings.ignoreInvisibleLayers = "false" \/ d[n].visible))

(***************************************************************************)
(* State                                                                   *)
(***************************************************************************)
VARIABLES
    doc,                \* the document: element id -> element
    annotations,        \* elements made by createAnnotationFrame, in creation order
    settingsStore,      \* figma.clientStorage "settings"
    DS_CATALOG,         \* module-level catalog of dsCatalog
    importedVariables,  \* module-level import cache of dsCatalog: key -> handle
    originalValues,     \* undo journal of main.ts: finding id -> snapshot
    scans,              \* the runScan invocations: position and locals of each
    saves,              \* the SETTINGS_SAVE invocations: position and locals of each
    inbox,              \* messages panel -> main thread, not yet handled
    outbox,             \* messages main thread -> panel, not yet handled
    ui,                 \* React state of the panel (App.tsx)
    notified,           \* texts passed to figma.notify, latest last
    fixes,              \* the applyFix / undoFix invocations: position and locals of each
    used,               \* how many requests, edits and writes happened so far
    resolution,         \* the alias resolution in progress: its arguments and locals
    lookup              \* the colour lookup in progress: token, document colour, key

vars == << doc, annotations, settingsStore, DS_CATALOG, importedVariables, originalValues,
           scans, saves, inbox, outbox, ui, notified, fixes, used, resolution,
           lookup >>

NoFindingId == << "", "" >>

Msg(type) ==
    [ type |-> type, scan |-> 0, findings |-> << >>, scannedNodes |-> 0,
      findingId |-> NoFindingId, nodeId |-> "", message |-> "",
      settings |-> DEFAULT_SETTINGS, fixPayload |-> NoPayload ]

Progress(text) == [Msg("SCAN_PROGRESS") EXCEPT !.message = text]
ErrorMsg(text) == [Msg("ERROR") EXCEPT !.message = text]

IdleScan ==
    [ pc |-> "idle", settings |-> DEFAULT_SETTINGS, nodes |-> << >>, cur |-> FirstCursor,
      findings |-> << >>, varRef |-> NoVarRef, log |-> << >>,
      build |-> NullCatalog, asked |-> DEFAULT_SETTINGS ]

\* replaced is what the store held before a write that went through; the code
\* keeps no such copy
IdleSave == [pc |-> "idle", settings |-> DEFAULT_SETTINGS, replaced |-> DEFAULT_SETTINGS]

InitialUI(settings) ==
    [ scanning |-> FALSE, findings |-> << >>, scannedNodes |-> 0,
      resolvedMap |-> [id \in {} |-> ""], shownScan |-> 0, settings |-> settings ]

\* what is the same at the start of every session: nothing requested yet
Fresh ==
    /\ annotations = << >>
    /\ importedVariables = [k \in {} |-> NoVariable]
    /\ originalValues = [id \in {} |-> NoSnapshot]
    /\ scans = [s \in 1..MaxScans |-> IdleScan]
    /\ saves = [s \in 1..MaxSaves |-> IdleSave]
    /\ outbox = << >>
    /\ notified = << >>
    /\ fixes = << >>
    /\ used = [scans |-> 0, saves |-> 0, edits |-> 0, applies |-> 0, undos |-> 0, marks |-> 0,
               changes |-> 0]

(***************************************************************************)
(* runScan (main.ts).  One action per stretch between two waits for the    *)
(* host.  The rule checks outside the token core (effects, required        *)
(* states, spacing, ...) add findings of their own rules and are left out. *)
(***************************************************************************)
Post(msgs) == outbox' = outbox \o msgs

\* the invocation with the types of the messages it posts added to its log;
\* the log is what the invocation has sent so far, the code keeps no such list
Logged(scan, msgs) == [scan EXCEPT !.log = @ \o [i \in DOMAIN msgs |-> msgs[i].type]]

\* the messages of scan s: the panel cannot tell which scan sent a message,
\* the field scan is there for the properties only
From(s, msgs) == [i \in DOMAIN msgs |-> [msgs[i] EXCEPT !.scan = s]]

\* case "RUN_SCAN": runScan up to `await getSettings()`
OnRunScan ==
    /\ inbox # << >> /\ Head(inbox).type = "RUN_SCAN"
    /\ \E s \in 1..MaxScans :
        /\ scans[s].pc = "idle" /\ \A t \in 1..(s - 1) : scans[t].pc # "idle"
        /\ scans' = [scans EXCEPT ![s] = Logged([@ EXCEPT !.pc = "settings",
                                                              !.asked = Head(inbox).settings],
                                                 << Msg("SCAN_STARTED") >>)]
        /\ Post(From(s, << Msg("SCAN_STARTED") >>))
    /\ inbox' = Tail(inbox)
    /\ UNCHANGED << doc, annotations, settingsStore, DS_CATALOG, importedVariables,
                    originalValues, saves, ui, notified, fixes, used, resolution, lookup >>

\* runScan from the settings to `await detectLibraryUsage(nodes)`; getScanRoots
\* gives the current page for every scope but all-pages, so roots is not empty
ScanAfterSettings(s) ==
    /\ scans[s].pc = "settings"
    /\ \E readOk \in BOOLEAN :
        LET settings == getSettings(settingsStore, readOk)
            nodes == getAllNodesToScan(doc, settings)
            msgs == << Progress("Collected nodes"), Progress("Detecting library usage...") >>
        IN  /\ scans' = [scans EXCEPT ![s] = Logged([@ EXCEPT !.pc = "usage", !.settings = settings,
                                                              !.nodes = nodes], msgs)]
            /\ Post(From(s, msgs))
    /\ UNCHANGED << doc, annotations, settingsStore, DS_CATALOG, importedVariables,
                    originalValues, saves, inbox, ui, notified, fixes, used, resolution, lookup >>

\* the elements of the scan that the user has deleted since they were collected
\* and that the colour loop reads in the stretch from scan.cur to where `run`
\* stopped
GoneInColors(scan, run, d) ==
    { k \in DOMAIN scan.nodes :
        /\ ~d[scan.nodes[k]].exists
        /\ k >= scan.cur.n
        /\ run.state = "done" \/ k <= run.cur.n }

\* those the typography loop reads after the colour loop ended
GoneInTypography(scan, run, d) ==
    { k \in DOMAIN scan.nodes : ~d[scan.nodes[k]].exists /\ run.state = "done" }

\* the catch of runScan: the host threw on the read of a deleted element, the
\* scan ends with an ERROR and without its findings
RunScanCatch(s, scan, before) ==
    LET msgs == before \o << ErrorMsg("Scan failed") >> IN
    /\ scans' = [scans EXCEPT ![s] = Logged([scan EXCEPT !.pc = "failed"], msgs)]
    /\ Post(From(s, msgs))

ScanColors_ProgressAfterComplete(s, scan, run, before) ==
    IF run.state = "import"
    THEN /\ scans' = [scans EXCEPT ![s] = Logged([scan EXCEPT !.pc = "import", !.cur = run.cur,
                                                        !.findings = run.findings,
                                                        !.varRef = run.varRef], before)]
         /\ Post(From(s, before))
    ELSE LET all == run.findings \o checkTypographyTokens(scan.nodes, doc, Strictness(scan.settings))
             msgs == before \o
                 << [Msg("SCAN_COMPLETE") EXCEPT !.findings = all, !.scannedNodes = Len(scan.nodes)],
                    Progress("Checking typography...") >>
         IN
         /\ scans' = [scans EXCEPT ![s] = Logged([scan EXCEPT !.pc = "done", !.cur = run.cur,
                                                        !.findings = all, !.varRef = NoVarRef], msgs)]
         /\ Post(From(s, msgs))

\* the colour loop has stopped: wait for the import, or finish the scan
ScanColors(s, scan, run, before) ==
    IF run.state = "import"
    THEN /\ scans' = [scans EXCEPT ![s] = Logged([scan EXCEPT !.pc = "import", !.cur = run.cur,
                                                        !.findings = run.findings,
                                                        !.varRef = run.varRef], before)]
         /\ Post(From(s, before))
    ELSE LET all == run.findings \o checkTypographyTokens(scan.nodes, doc, Strictness(scan.settings))
             msgs == before \o
                 << Progress("Checking typography..."),
                    [Msg("SCAN_COMPLETE") EXCEPT !.findings = all, !.scannedNodes = Len(scan.nodes)] >>
         IN
         /\ scans' = [scans EXCEPT ![s] = Logged([scan EXCEPT !.pc = "done", !.cur = run.cur,
                                                        !.findings = all, !.varRef = NoVarRef], msgs)]
         /\ Post(From(s, msgs))

\* a stretch of the rule loops: the read of a deleted element is the host's to
\* answer, with the last values or with an exception
ScanStretch(s, scan, run, before) ==
    \/ ScanColors(s, scan, run, before)
    \/ /\ GoneInColors(scan, run, doc) # {}
       /\ RunScanCatch(s, scan, before)
    \/ /\ GoneInColors(scan, run, doc) = {} /\ GoneInTypography(scan, run, doc) # {}
       /\ RunScanCatch(s, scan, before \o << Progress("Checking typography...") >>)

\* runScan from the usage report on: ensureDSCatalogLoaded, then checkColorTokens
\* until it waits for an import or ends
ScanAfterUsage(s) ==
    /\ scans[s].pc = "usage"
    /\ \E catalog \in {ensureDSCatalogLoaded(DS_CATALOG, scans[s].settings.dsLibraryKey)} :
       \E run \in {RunColors(scans[s].nodes, doc, scans[s].settings, catalog, FirstCursor, << >>,
                             importedVariables)} :
           /\ DS_CATALOG' = catalog
           /\ importedVariables' = run.cache
           /\ ScanStretch(s, [scans[s] EXCEPT !.build = catalog], run,
                          << Msg("LIBRARY_USAGE_DETECTED"), Progress("Checking colors...") >>)
    /\ UNCHANGED << doc, annotations, settingsStore, originalValues, saves, inbox, ui,
                    notified, fixes, used, resolution, lookup >>

\* importVariableByKey returns from the host (a handle, or null when every
\* import path failed); checkColorTokens pushes the finding and goes on
ScanAfterImport(s) ==
    /\ scans[s].pc = "import"
    /\ \E imported \in BOOLEAN :
        LET scan == scans[s]
            varKey == scan.varRef.variableKey
            variable == IF imported THEN VariableIdOfKey(varKey) ELSE NoVariable
            cache == IF imported
                     THEN [k \in DOMAIN importedVariables \cup {varKey} |->
                             IF k = varKey THEN variable ELSE importedVariables[k]]
                     ELSE importedVariables
            pushed == Append(scan.findings,
                             ImportedFinding(scan.nodes[scan.cur.n], scan.cur.property, scan.cur.i,
                                             Strictness(scan.settings), scan.varRef, variable))
            run == RunColors(scan.nodes, doc, scan.settings, DS_CATALOG, NextPaint(scan.cur),
                             pushed, cache)
        IN  /\ importedVariables' = run.cache
            /\ ScanStretch(s, scan, run, << >>)
    /\ UNCHANGED << doc, annotations, settingsStore, DS_CATALOG, originalValues, saves, inbox,
                    ui, notified, fixes, used, resolution, lookup >>

(***************************************************************************)
(* Alias resolution: resolveColorVariableToRGBA (dsCatalog) and            *)
(* resolveAliasWithMap (main.ts), one action per call of the recursion,    *)
(* and the indexing of the resolved variable by loadDSCatalog              *)
(***************************************************************************)
Alias(id) == [kind |-> "alias", id |-> id]          \* { type: "VARIABLE_ALIAS", id }
Fraction == 10^5
Number(n) == [kind |-> "number", value |-> n]       \* a FLOAT value, in units of 1 / Fraction
Undefined == [kind |-> "undefined"]
Unresolved == [kind |-> "null"]

isAlias(v) == v.kind = "alias"
isRgba(v) == v.kind = "rgba"
isPrimitive(v) == v.kind = "number"

\* `!val`: undefined is falsy, and so is the number 0; objects are not
Falsy(v) == v.kind = "undefined" \/ (v.kind = "number" /\ v.value = 0)

\* valuesByMode[modeId] of a variable whose modes are kept in key order
ValueAt(valuesByMode, modeId) ==
    IF \E i \in DOMAIN valuesByMode : valuesByMode[i][1] = modeId
    THEN valuesByMode[CHOOSE i \in DOMAIN valuesByMode : valuesByMode[i][1] = modeId][2]
    ELSE Undefined

\* the mode whose value a call goes on with: `let val = valuesByMode[modeId];
\* if (!val) { first of Object.keys(valuesByMode), or return null }`
ModeUsed(valuesByMode, modeId) ==
    IF ~Falsy(ValueAt(valuesByMode, modeId)) THEN modeId
    ELSE IF valuesByMode # << >> THEN valuesByMode[1][1]
    ELSE NoKey

Return(value, mode) == [state |-> "return", value |-> value, id |-> NoKey, mode |-> mode]
Recurse(id, mode) == [state |-> "recurse", value |-> Unresolved, id |-> id, mode |-> mode]

CycleDetected_Never(visited, id) == FALSE

\* `if (visited.has(id))`
CycleDetected(visited, id) == id \in visited

OnCycleReturn_Value == Concrete(Odd)

\* what a call returns when it has detected a cycle: null
OnCycleReturn == Unresolved

\* one call of resolveColorVariableToRGBA(variableIdOrKey, modeId, visited)
resolveColorVariableToRGBACall(graph, variableId, modeId, visited) ==
    IF variableId \notin DOMAIN graph THEN Return(Unresolved, NoKey)
    ELSE IF CycleDetected(visited, variableId) THEN Return(OnCycleReturn, NoKey)
    ELSE LET mode == ModeUsed(graph[variableId], modeId)
             val == ValueAt(graph[variableId], mode)
         IN  IF mode = NoKey THEN Return(Unresolved, NoKey)
             ELSE IF isRgba(val) THEN Return(val, mode)
             ELSE IF isAlias(val) THEN Recurse(val.id, mode)
             ELSE Return(Unresolved, mode)

\* one call of resolveAliasWithMap(value, modeId, variablesMap, visited)
resolveAliasWithMapCall(value, modeId, variablesMap, visited) ==
    IF ~isAlias(value) THEN Return(Unresolved, NoKey)
    ELSE IF CycleDetected(visited, value.id) THEN Return(OnCycleReturn, NoKey)
    ELSE IF value.id \notin DOMAIN variablesMap THEN Return(Unresolved, NoKey)
    ELSE LET mode == ModeUsed(variablesMap[value.id], modeId)
             aliasValue == ValueAt(variablesMap[value.id], mode)
         IN  IF mode = NoKey THEN Return(Unresolved, NoKey)
             ELSE IF isRgba(aliasValue) THEN Return(aliasValue, mode)
             ELSE IF isAlias(aliasValue) THEN Recurse(aliasValue.id, mode)
             ELSE IF isPrimitive(aliasValue) THEN Return(aliasValue, mode)
             ELSE Return(Unresolved, mode)

\* resolveAliasWithMap to its end
RECURSIVE resolveAliasWithMap(_, _, _, _)
resolveAliasWithMap(value, modeId, variablesMap, visited) ==
    LET call == resolveAliasWithMapCall(value, modeId, variablesMap, visited) IN
    IF call.state = "return" THEN call.value
    ELSE resolveAliasWithMap(Alias(call.id), modeId, variablesMap, visited \cup {value.id})

\* the palette extraction of one mode of one variable: a concrete value is
\* its own resolved value, an alias is resolved through the map, and the
\* result is kept `if (resolved)` for a colour, `if (resolved !== null)` otherwise
ResolvedValueOf(resolvedType, value, modeId, variablesMap) ==
    IF isAlias(value)
    THEN LET resolved == resolveAliasWithMap(value, modeId, variablesMap, {}) IN
         IF resolved = Unresolved THEN Undefined
         ELSE IF resolvedType = "COLOR" /\ Falsy(resolved) THEN Undefined
         ELSE resolved
    ELSE IF resolvedType = "COLOR" /\ isRgba(value) THEN value
    ELSE IF resolvedType = "FLOAT" /\ isPrimitive(value) THEN value
    ELSE Undefined

\* the entries of a record that are there, in key order
Defined(entries) == SelectSeq(entries, LAMBDA e : e[2] # Undefined)

\* varData.resolvedValues of the extraction
ExtractedValues(resolvedType, valuesByMode, variablesMap) ==
    Defined([i \in DOMAIN valuesByMode |->
        << valuesByMode[i][1],
           ResolvedValueOf(resolvedType, valuesByMode[i][2], valuesByMode[i][1], variablesMap) >>])

\* normalizeNumber: Number(value.toFixed(4)).toString(), in ten-thousandths
normalizeNumber(value) == RoundDiv(value, Fraction \div 10^4)

\* the keys of numbersByValue under which loadDSCatalog puts a FLOAT variable
NumberKeys(variable) ==
    { normalizeNumber(p[2].value) : p \in {q \in Range(variable.valuesByMode) : isPrimitive(q[2])} }

\* the lookup keys under which loadDSCatalog indexes one variable
IndexKeys(variable) ==
    IF variable.resolvedType = "COLOR" THEN UniqueColors(variable)
    ELSE IF variable.resolvedType = "FLOAT" THEN NumberKeys(variable)
    ELSE {}

TokenIds == {"A", "B", "C"}
ModeIds == << "m1", "m2" >>

\* the concrete value a variable of a type can hold in a mode
ConcreteValue(resolvedType, m) ==
    IF resolvedType = "COLOR" THEN (IF m = 1 THEN Concrete(Blue) ELSE Concrete(Teal))
    ELSE (IF m = 1 THEN Number(8 * Fraction) ELSE Number(0))

ModeEntries(resolvedType, m) ==
    {Undefined, ConcreteValue(resolvedType, m)} \cup {Alias(id) : id \in TokenIds}

ValuesByModeOptions(resolvedType) ==
    { Defined(<< << ModeIds[1], e1 >>, << ModeIds[2], e2 >> >>) :
        e1 \in ModeEntries(resolvedType, 1), e2 \in ModeEntries(resolvedType, 2) }

\* the variables of a library: id -> valuesByMode
TokenGraphs(resolvedType) == [TokenIds -> ValuesByModeOptions(resolvedType)]

NoResolution ==
    [ fn |-> "none", resolvedType |-> "COLOR", graph |-> [id \in TokenIds |-> << >>],
      modeId |-> NoKey, start |-> NoKey, pc |-> "none", arg |-> NoKey, visited |-> {},
      result |-> Unresolved, calls |-> 0, used |-> << >>, resolvedValues |-> << >>, index |-> {} ]

\* a resolution of variable A for one mode is about to begin: by
\* resolveColorVariableToRGBA(A, modeId), or by the extraction loop over the
\* modes of A
Resolution(fn, resolvedType, graph, modeId) ==
    [NoResolution EXCEPT !.fn = fn, !.resolvedType = resolvedType, !.graph = graph,
                         !.modeId = modeId, !.start = "A",
                         !.pc = IF fn = "color" THEN "call" ELSE "extract",
                         !.arg = IF fn = "color" THEN "A" ELSE NoKey]

\* the resolver has returned to its first caller
Returned(r, call) ==
    [r EXCEPT !.pc = "done", !.result = call.value, !.calls = @ + 1,
              !.used = IF call.mode = NoKey THEN @ ELSE Append(@, [id |-> r.arg, mode |-> call.mode])]

\* the resolver calls itself for the variable the alias names
Recursed(r, call) ==
    [r EXCEPT !.arg = call.id, !.visited = @ \cup {r.arg}, !.calls = @ + 1,
              !.used = Append(@, [id |-> r.arg, mode |-> call.mode])]

Others ==
    << doc, annotations, settingsStore, DS_CATALOG, importedVariables, originalValues,
       scans, saves, inbox, outbox, ui, notified, fixes, used, lookup >>

\* the extraction loop body for modeId (main.ts, "Resolve aliases for all
\* types"): a concrete value is stored as it is, an alias goes to the resolver
ExtractMode ==
    /\ resolution.pc = "extract"
    /\ LET value == ValueAt(resolution.graph[resolution.start], resolution.modeId) IN
       resolution' =
           IF isAlias(value) THEN [resolution EXCEPT !.pc = "call", !.arg = value.id]
           ELSE [resolution EXCEPT !.pc = "done",
                    !.result = ResolvedValueOf(resolution.resolvedType, value, resolution.modeId,
                                               resolution.graph),
                    !.used = << [id |-> resolution.start, mode |-> resolution.modeId] >>]
    /\ UNCHANGED Others

ResolveWithMap ==
    /\ resolution.pc = "call" /\ resolution.fn = "map"
    /\ resolution.calls < MaxCalls
    /\ LET call == resolveAliasWithMapCall(Alias(resolution.arg), resolution.modeId,
                                           resolution.graph, resolution.visited)
       IN  resolution' = IF call.state = "return" THEN Returned(resolution, call)
                         ELSE Recursed(resolution, call)
    /\ UNCHANGED Others

ResolveColor ==
    /\ resolution.pc = "call" /\ resolution.fn = "color"
    /\ resolution.calls < MaxCalls
    /\ LET call == resolveColorVariableToRGBACall(resolution.graph, resolution.arg,
                                                  resolution.modeId, resolution.visited)
       IN  resolution' = IF call.state = "return" THEN Returned(resolution, call)
                         ELSE Recursed(resolution, call)
    /\ UNCHANGED Others

\* the resolvedValues a palette file can hold for the variable: what the
\* extraction computes, only its first mode, or none
ResolvedValuesOptions(r) ==
    LET full == ExtractedValues(r.resolvedType, r.graph[r.start], r.graph) IN
    { full, IF full = << >> THEN full ELSE << Head(full) >>, << >> }

\* loadDSCatalog over the variable of the palette: the keys it is indexed under
IndexVariable ==
    /\ resolution.pc = "done"
    /\ \E resolvedValues \in ResolvedValuesOptions(resolution) :
        resolution' =
            [resolution EXCEPT !.pc = "indexed", !.resolvedValues = resolvedValues,
                !.index = IndexKeys([ resolvedType |-> resolution.resolvedType,
                                      valuesByMode |-> resolution.graph[resolution.start],
                                      resolvedValues |-> resolvedValues ])]
    /\ UNCHANGED Others

(***************************************************************************)
(* The colour key: a colour variable is indexed under normalizeRgba of its *)
(* value (loadDSCatalog), a document colour is looked up under             *)
(* normalizeRgba of its own (matchColor)                                   *)
(***************************************************************************)
NoLookup ==
    [ pc |-> "none", token |-> WithAlpha(Odd, Unit), color |-> WithAlpha(Odd, Unit),
      key |-> << >>, matched |-> FALSE ]

\* channel values on both sides of a turn of Math.round(c * 255), and others
Channels == { 0, (91 * Unit) \div 255, Unit \div 2 - 1, Unit \div 2, Unit \div 2 + 1, Unit - 1, Unit }

\* alpha values on both sides of a turn of toFixed(3), and others
Alphas == { Unit \div 2 - 501, Unit \div 2 - 500, Unit - 1, Unit }

\* the smallest differences two values of the model can have: the last digit
Noise == { 0 - 1, 0, 1 }

InRange(c) == c >= 0 /\ c <= Unit

Session ==
    << doc, annotations, settingsStore, DS_CATALOG, importedVariables, originalValues,
       scans, saves, inbox, outbox, ui, notified, fixes, used, resolution >>

\* loadDSCatalog: colorsByRgba.set(normalizeRgba(rgba), ...)
IndexColor ==
    /\ lookup.pc = "start"
    /\ lookup' = [lookup EXCEPT !.pc = "indexed", !.key = normalizeRgba(lookup.token)]
    /\ UNCHANGED Session

\* matchColor: colorsByRgba.get(normalizeRgba(color)) || null
LookupColor ==
    /\ lookup.pc = "indexed"
    /\ lookup' = [lookup EXCEPT !.pc = "matched",
                                !.matched = (normalizeRgba(lookup.color) = lookup.key)]
    /\ UNCHANGED Session

(***************************************************************************)
(* applyFix / undoFix (main.ts).  Each invocation of a handler is a record *)
(* of `fixes`; one action per stretch between two waits for the host.      *)
(* The fields start, end, docStart, annStart, journalStart, docWrites,     *)
(* journalWrites, hadEntry and posted record what the invocation saw and   *)
(* did; the code has no such fields.                                       *)
(***************************************************************************)
\* JSON.parse(JSON.stringify(paints)): a new list of new paint objects with the
\* same own fields
JsonClone(paints) ==
    [i \in DOMAIN paints |->
        [ type |-> paints[i].type,
          color |-> [r |-> paints[i].color.r, g |-> paints[i].color.g, b |-> paints[i].color.b],
          opacity |-> paints[i].opacity, visible |-> paints[i].visible,
          bound |-> paints[i].bound, inferred |-> paints[i].inferred ]]

PaintsSnapshot(property, paints) ==
    [NoSnapshot EXCEPT !.type = property, !.paints = JsonClone(paints)]
StyleSnapshot(type, id) == [NoSnapshot EXCEPT !.type = type, !.id = id]
NumberSnapshot(type, nums) == [NoSnapshot EXCEPT !.type = type, !.nums = nums]

\* `"cornerRadius" in node`
HasCornerRadius(node) == node.type = "FRAME"

\* the id of the style figma.importStyleByKeyAsync returns for a key
StyleIdOfKey(styleKey) == IF styleKey = "sk1" THEN "S:1" ELSE "S:0"

\* an element createAnnotationFrame has made: the title and tag texts appended
\* to it, the text nodes created for it and not appended, and whether
\* page.appendChild(frame) has run
Annotation(name) == [name |-> name, children |-> << >>, loose |-> 1, appended |-> FALSE]

Invocation(kind, msg) ==
    [ kind |-> kind, pc |-> "node", findingId |-> msg.findingId, nodeId |-> msg.nodeId,
      fixPayload |-> msg.fixPayload, originalValue |-> NoSnapshot, frame |-> 0, step |-> 0,
      outcome |-> "", posted |-> "", hadEntry |-> FALSE,
      docStart |-> doc, annStart |-> annotations, journalStart |-> originalValues,
      start |-> used.changes, end |-> 0,
      docWrites |-> 0, journalWrites |-> 0 ]

\* what one stretch of a handler leaves: the document, the annotation elements,
\* the journal, the invocation, the messages posted, the texts notified and
\* the number of writes to the document and to the journal
Step(d, ann, journal, inv, msgs, notes, docWrites, journalWrites) ==
    [ doc |-> d, annotations |-> ann, journal |-> journal, inv |-> inv, msgs |-> msgs,
      notes |-> notes, docWrites |-> docWrites, journalWrites |-> journalWrites ]

\* the catch of figma.ui.onmessage: the error goes to the panel
Caught(message) == << ErrorMsg(message) >>

WithEntry(journal, findingId, entry) ==
    [id \in DOMAIN journal \cup {findingId} |-> IF id = findingId THEN entry ELSE journal[id]]

WithoutEntry(journal, findingId) == [id \in DOMAIN journal \ {findingId} |-> journal[id]]

Throw_StoringOriginal(d, ann, journal, inv, message, docWrites) ==
    Step(d, ann,
         IF inv.originalValue # NoSnapshot THEN WithEntry(journal, inv.findingId, inv.originalValue)
                                           ELSE journal,
         [inv EXCEPT !.pc = "done", !.outcome = "error"],
         Caught(message), << >>, docWrites, IF inv.originalValue # NoSnapshot THEN 1 ELSE 0)

\* a throw inside the handler: nothing after it runs
Throw(d, ann, journal, inv, message, docWrites) ==
    Step(d, ann, journal, [inv EXCEPT !.pc = "done", !.outcome = "error"],
         Caught(message), << >>, docWrites, 0)

\* the handler waits for the host
Suspend(d, ann, journal, inv, docWrites) == Step(d, ann, journal, inv, << >>, << >>, docWrites, 0)

\* the end of applyFix: store the original value if there is one, tell the
\* panel, notify
Complete(d, ann, journal, inv, docWrites) ==
    Step(d, ann,
         IF inv.originalValue # NoSnapshot THEN WithEntry(journal, inv.findingId, inv.originalValue)
                                           ELSE journal,
         [inv EXCEPT !.pc = "done", !.outcome = "applied"],
         << [Msg("FIX_APPLIED") EXCEPT !.findingId = inv.findingId, !.nodeId = inv.nodeId] >>,
         << "Fix applied successfully" >>,
         docWrites, IF inv.originalValue # NoSnapshot THEN 1 ELSE 0)

\* applyFix from the node lookup to the first wait inside the fix, or to its end
applyFix(d, ann, journal, inv) ==
    LET node == d[inv.nodeId]
        p == inv.fixPayload
        snap(v) == [inv EXCEPT !.originalValue = v]
    IN
    IF ~node.exists THEN Throw(d, ann, journal, inv, "Node not found", 0)
    ELSE CASE p.type = "bind-variable" ->
                LET taken == IF p.property = "fills" /\ HasPaints(node)
                                THEN snap(PaintsSnapshot("fills", node.fills))
                             ELSE IF p.property = "strokes" /\ HasPaints(node)
                                THEN snap(PaintsSnapshot("strokes", node.strokes))
                             ELSE inv
                IN  IF p.variableId = NoVariable \/ p.property = ""
                    THEN Complete(d, ann, journal, taken, 0)
                    ELSE Suspend(d, ann, journal, [taken EXCEPT !.pc = "host"], 0)
           [] p.type = "apply-paint-style" ->
                LET taken == IF p.property = "fills" /\ HasPaints(node)
                                THEN snap(StyleSnapshot("fillStyleId", node.fillStyleId))
                             ELSE IF p.property = "strokes" /\ HasPaints(node)
                                THEN snap(StyleSnapshot("strokeStyleId", node.strokeStyleId))
                             ELSE inv
                IN  IF p.styleKey = NoKey \/ p.property = ""
                    THEN Throw(d, ann, journal, taken, "Missing styleKey or property", 0)
                    ELSE Suspend(d, ann, journal, [taken EXCEPT !.pc = "host"], 0)
           [] p.type = "apply-text-style" ->
                LET taken == snap(StyleSnapshot("textStyleId", node.textStyleId)) IN
                IF p.styleId = NoStyle THEN Complete(d, ann, journal, taken, 0)
                ELSE Complete([d EXCEPT ![inv.nodeId].textStyleId = p.styleId], ann, journal, taken, 1)
           [] p.type = "update-spacing" ->
                LET taken == snap(NumberSnapshot("itemSpacing", << node.itemSpacing >>)) IN
                IF ~HasLayout(node)
                THEN Throw(d, ann, journal, taken, "Node does not support spacing", 0)
                ELSE IF p.property = "itemSpacing"
                THEN Complete([d EXCEPT ![inv.nodeId].itemSpacing = p.value], ann, journal, taken, 1)
                ELSE Complete(d, ann, journal, taken, 0)
           [] p.type = "update-padding" ->
                LET taken == snap(NumberSnapshot("padding", node.padding)) IN
                IF ~HasLayout(node)
                THEN Throw(d, ann, journal, taken, "Node does not support padding", 0)
                ELSE Complete([d EXCEPT ![inv.nodeId].padding = << p.value, p.value, p.value, p.value >>],
                              ann, journal, taken, 1)
           [] p.type = "update-border-radius" ->
                LET taken == snap(NumberSnapshot("cornerRadius", << node.cornerRadius >>)) IN
                IF ~HasCornerRadius(node)
                THEN Throw(d, ann, journal, taken, "Node does not support border radius", 0)
                ELSE Complete([d EXCEPT ![inv.nodeId].cornerRadius = p.value], ann, journal, taken, 1)
           [] p.type = "create-frame" ->
                \* createAnnotationFrame up to the first loadFontAsync: the
                \* elements of the model are on the page, so the page is found
                IF ~p.hasFrameData THEN Complete(d, ann, journal, inv, 0)
                ELSE Suspend(d, Append(ann, Annotation(p.frameName)), journal,
                             [inv EXCEPT !.pc = "font", !.frame = Len(ann) + 1, !.step = 0], 1)
           [] OTHER -> Complete(d, ann, journal, inv, 0)

\* figma.variables.setBoundVariableForPaint(paint, "color", variable)
setBoundVariableForPaint(paint, variableId) == [paint EXCEPT !.bound = variableId]

\* applyVariableBinding / applyPaintStyle after the host answered: found is
\* whether it gave a variable / a style
applyAfterHost(d, ann, journal, inv, found) ==
    LET node == d[inv.nodeId]
        p == inv.fixPayload
    IN
    IF p.type = "bind-variable"
    THEN IF ~found THEN Throw(d, ann, journal, inv, "Variable not found", 0)
         ELSE IF p.property = "fills" /\ HasPaints(node)
         THEN IF Len(node.fills) > 0 /\ node.fills[1].type = "SOLID"
              THEN Complete([d EXCEPT ![inv.nodeId].fills[1] = setBoundVariableForPaint(@, p.variableId)],
                            ann, journal, inv, 1)
              ELSE Complete(d, ann, journal, inv, 0)
         ELSE IF p.property = "strokes" /\ HasPaints(node)
         THEN IF Len(node.strokes) > 0 /\ node.strokes[1].type = "SOLID"
              THEN Complete([d EXCEPT ![inv.nodeId].strokes[1] = setBoundVariableForPaint(@, p.variableId)],
                            ann, journal, inv, 1)
              ELSE Complete(d, ann, journal, inv, 0)
         ELSE Complete(d, ann, journal, inv, 0)
    ELSE IF ~found THEN Throw(d, ann, journal, inv, "Cannot import paint style", 0)
         ELSE IF p.property = "fills" /\ HasPaints(node)
         THEN Complete([d EXCEPT ![inv.nodeId].fillStyleId = StyleIdOfKey(p.styleKey)], ann, journal, inv, 1)
         ELSE IF p.property = "strokes" /\ HasPaints(node)
         THEN Complete([d EXCEPT ![inv.nodeId].strokeStyleId = StyleIdOfKey(p.styleKey)], ann, journal, inv, 1)
         ELSE Complete(d, ann, journal, inv, 0)

\* createAnnotationFrame after a loadFontAsync (with its fallback font)
\* settled: loaded is whether either font loaded.  Step 0 is the title, step
\* j the j-th tag.
createAnnotationFrame(d, ann, journal, inv, loaded) ==
    LET p == inv.fixPayload
        line == IF inv.step = 0 THEN p.frameName ELSE p.frameText[inv.step]
        filled == [ann EXCEPT ![inv.frame].children = Append(@, line), ![inv.frame].loose = @ - 1]
    IN
    IF ~loaded THEN Throw(d, ann, journal, inv, "Font could not be loaded", 0)
    ELSE IF inv.step < Len(p.frameText)
    THEN Suspend(d, [filled EXCEPT ![inv.frame].loose = @ + 1], journal,
                 [inv EXCEPT !.step = @ + 1], 1)
    ELSE Complete(d, [filled EXCEPT ![inv.frame].appended = TRUE], journal, inv, 1)

Restore_Nothing(d, nodeId, originalValue) == d

\* the switch of undoFix: put the stored value back
Restore(d, nodeId, originalValue) ==
    LET node == d[nodeId] IN
    CASE originalValue.type = "fills" /\ HasPaints(node) ->
            [d EXCEPT ![nodeId].fills = originalValue.paints]
      [] originalValue.type = "strokes" /\ HasPaints(node) ->
            [d EXCEPT ![nodeId].strokes = originalValue.paints]
      [] originalValue.type = "fillStyleId" /\ HasPaints(node) ->
            [d EXCEPT ![nodeId].fillStyleId = originalValue.id]
      [] originalValue.type = "strokeStyleId" /\ HasPaints(node) ->
            [d EXCEPT ![nodeId].strokeStyleId = originalValue.id]
      [] originalValue.type = "textStyleId" ->
            [d EXCEPT ![nodeId].textStyleId = originalValue.id]
      [] originalValue.type = "itemSpacing" /\ HasLayout(node) ->
            [d EXCEPT ![nodeId].itemSpacing = originalValue.nums[1]]
      [] originalValue.type = "padding" /\ HasLayout(node) ->
            [d EXCEPT ![nodeId].padding = originalValue.nums]
      [] originalValue.type = "cornerRadius" /\ HasCornerRadius(node) ->
            [d EXCEPT ![nodeId].cornerRadius = originalValue.nums[1]]
      [] OTHER -> d

Restores(node, originalValue) ==
    \/ originalValue.type \in {"fills", "strokes", "fillStyleId", "strokeStyleId"} /\ HasPaints(node)
    \/ originalValue.type = "textStyleId"
    \/ originalValue.type \in {"itemSpacing", "padding"} /\ HasLayout(node)
    \/ originalValue.type = "cornerRadius" /\ HasCornerRadius(node)

undoFix_KeepingEntry(d, ann, journal, inv) ==
    IF ~d[inv.nodeId].exists THEN Throw(d, ann, journal, inv, "Node not found", 0)
    ELSE IF inv.findingId \notin DOMAIN journal
    THEN Step(d, ann, journal, [inv EXCEPT !.pc = "done", !.outcome = "nothing to undo"],
              << >>, << "Cannot undo - original value not found" >>, 0, 0)
    ELSE Step(Restore(d, inv.nodeId, journal[inv.findingId]), ann, journal,
              [inv EXCEPT !.pc = "done", !.outcome = "undone"],
              << >>, << "Fix undone" >>,
              IF Restores(d[inv.nodeId], journal[inv.findingId]) THEN 1 ELSE 0, 0)

\* undoFix from the node lookup to its end
undoFix(d, ann, journal, inv) ==
    IF ~d[inv.nodeId].exists THEN Throw(d, ann, journal, inv, "Node not found", 0)
    ELSE IF inv.findingId \notin DOMAIN journal
    THEN Step(d, ann, journal, [inv EXCEPT !.pc = "done", !.outcome = "nothing to undo"],
              << >>, << "Cannot undo - original value not found" >>, 0, 0)
    ELSE Step(Restore(d, inv.nodeId, journal[inv.findingId]), ann,
              WithoutEntry(journal, inv.findingId),
              [inv EXCEPT !.pc = "done", !.outcome = "undone"],
              << >>, << "Fix undone" >>,
              IF Restores(d[inv.nodeId], journal[inv.findingId]) THEN 1 ELSE 0, 1)

\* the state after one stretch of invocation k
Settle(k, r) ==
    /\ doc' = r.doc
    /\ annotations' = r.annotations
    /\ originalValues' = r.journal
    /\ fixes' = [fixes EXCEPT ![k] =
                    [r.inv EXCEPT !.posted = IF r.msgs = << >> THEN "" ELSE r.msgs[Len(r.msgs)].type,
                                  !.docWrites = @ + r.docWrites,
                                  !.journalWrites = @ + r.journalWrites,
                                  !.end = used.changes + r.docWrites + r.journalWrites]]
    /\ Post(r.msgs)
    /\ notified' = notified \o r.notes
    /\ used' = [used EXCEPT !.changes = @ + r.docWrites + r.journalWrites]
    /\ UNCHANGED << settingsStore, DS_CATALOG, importedVariables, scans, saves, inbox, ui, resolution, lookup >>

\* case "APPLY_FIX": applyFix up to `await figma.getNodeByIdAsync(nodeId)`
OnApplyFix ==
    /\ inbox # << >> /\ Head(inbox).type = "APPLY_FIX"
    /\ fixes' = Append(fixes, Invocation("apply", Head(inbox)))
    /\ inbox' = Tail(inbox)
    /\ UNCHANGED << doc, annotations, settingsStore, DS_CATALOG, importedVariables,
                    originalValues, scans, saves, outbox, ui, notified, used, resolution, lookup >>

\* case "UNDO_FIX": undoFix up to `await figma.getNodeByIdAsync(nodeId)`
OnUndoFix ==
    /\ inbox # << >> /\ Head(inbox).type = "UNDO_FIX"
    /\ fixes' = Append(fixes, Invocation("undo", Head(inbox)))
    /\ inbox' = Tail(inbox)
    /\ UNCHANGED << doc, annotations, settingsStore, DS_CATALOG, importedVariables,
                    originalValues, scans, saves, outbox, ui, notified, used, resolution, lookup >>

FixAfterNode(k) ==
    /\ fixes[k].kind = "apply" /\ fixes[k].pc = "node"
    /\ Settle(k, applyFix(doc, annotations, originalValues, fixes[k]))

FixAfterHost(k) ==
    /\ fixes[k].kind = "apply" /\ fixes[k].pc = "host"
    /\ \E found \in BOOLEAN :
        Settle(k, applyAfterHost(doc, annotations, originalValues, fixes[k], found))

FixAfterFont(k) ==
    /\ fixes[k].kind = "apply" /\ fixes[k].pc = "font"
    /\ \E loaded \in BOOLEAN :
        Settle(k, createAnnotationFrame(doc, annotations, originalValues, fixes[k], loaded))

UndoAfterNode(k) ==
    /\ fixes[k].kind = "undo" /\ fixes[k].pc = "node"
    /\ Settle(k, [undoFix(doc, annotations, originalValues, fixes[k]) EXCEPT
                    !.inv.hadEntry = fixes[k].findingId \in DOMAIN originalValues])

(***************************************************************************)
(* The panel (ui/App.tsx, ui/components/IssueRow.tsx)                      *)
(***************************************************************************)
WithResolved(resolvedMap, id, how) ==
    [i \in DOMAIN resolvedMap \cup {id} |-> IF i = id THEN how ELSE resolvedMap[i]]

\* window.onmessage of the panel
UIReceive ==
    /\ outbox # << >>
    /\ LET msg == Head(outbox) IN
       ui' = CASE msg.type = "SCAN_STARTED" ->
                    [ui EXCEPT !.scanning = TRUE, !.findings = << >>,
                               !.resolvedMap = [id \in {} |-> ""], !.shownScan = 0]
               [] msg.type = "SCAN_COMPLETE" ->
                    [ui EXCEPT !.scanning = FALSE, !.findings = msg.findings,
                               !.scannedNodes = msg.scannedNodes, !.shownScan = msg.scan]
               [] msg.type = "FIX_APPLIED" ->
                    IF msg.findingId # NoFindingId
                    THEN [ui EXCEPT !.resolvedMap = WithResolved(@, msg.findingId, "auto-fixed")]
                    ELSE ui
               [] msg.type = "ERROR" -> [ui EXCEPT !.scanning = FALSE]
               [] OTHER -> ui
    /\ outbox' = Tail(outbox)
    /\ UNCHANGED << doc, annotations, settingsStore, DS_CATALOG, importedVariables,
                    originalValues, scans, saves, inbox, notified, fixes, used, resolution, lookup >>

\* the Auto-fix button of a row: shown for an unresolved finding that can be
\* fixed and has a payload
handleApplyFix ==
    /\ used.applies < MaxApplies
    /\ \E i \in DOMAIN ui.findings :
        LET finding == ui.findings[i] IN
        /\ finding.canAutoFix /\ finding.fixPayload # NoPayload
        /\ finding.id \notin DOMAIN ui.resolvedMap
        /\ inbox' = Append(inbox, [Msg("APPLY_FIX") EXCEPT !.findingId = finding.id,
                                                           !.nodeId = finding.nodeId,
                                                           !.fixPayload = finding.fixPayload])
    /\ used' = [used EXCEPT !.applies = @ + 1]
    /\ UNCHANGED << doc, annotations, settingsStore, DS_CATALOG, importedVariables,
                    originalValues, scans, saves, outbox, ui, notified, fixes, resolution, lookup >>

\* handleToggleResolved(findingId, nodeId, wasAutoFixed), handleUndoFix inside
handleToggleResolved ==
    \E i \in DOMAIN ui.findings, wasAutoFixed \in BOOLEAN :
        LET finding == ui.findings[i] IN
        /\ IF wasAutoFixed THEN used.undos < MaxUndos ELSE used.marks < MaxMarks
        /\ inbox' = IF wasAutoFixed
                    THEN Append(inbox, [Msg("UNDO_FIX") EXCEPT !.findingId = finding.id,
                                                               !.nodeId = finding.nodeId])
                    ELSE inbox
        /\ ui' = [ui EXCEPT !.resolvedMap =
                    IF finding.id \in DOMAIN @
                    THEN [id \in DOMAIN @ \ {finding.id} |-> @[id]]
                    ELSE WithResolved(@, finding.id, "resolved")]
        /\ used' = IF wasAutoFixed THEN [used EXCEPT !.undos = @ + 1]
                                   ELSE [used EXCEPT !.marks = @ + 1]
        /\ UNCHANGED << doc, annotations, settingsStore, DS_CATALOG, importedVariables,
                        originalValues, scans, saves, outbox, notified, fixes, resolution, lookup >>

(***************************************************************************)
(* The user, in the editor                                                 *)
(***************************************************************************)
\* the user deletes an element
DeleteNode ==
    /\ used.edits < MaxEdits
    /\ \E n \in NodeIds :
        /\ doc[n].exists
        /\ doc' = [doc EXCEPT ![n].exists = FALSE]
    /\ used' = [used EXCEPT !.edits = @ + 1, !.changes = @ + 1]
    /\ UNCHANGED << annotations, settingsStore, DS_CATALOG, importedVariables,
                    originalValues, scans, saves, inbox, outbox, ui, notified, fixes, resolution, lookup >>

(***************************************************************************)
(* Fix sessions: the panel shows the findings of a finished scan of a page *)
(* and the user works through them.                                        *)
(***************************************************************************)
PageName == "Page 1"

\* a page with one frame; the second element slot is not in use
FixDoc ==
    [n \in NodeIds |->
        IF n = "n1"
        THEN FrameNode(<< Paint("SOLID", Blue, Unit, TRUE, NoBinding, FALSE),
                          Paint("SOLID", Green, Unit, TRUE, NoBinding, FALSE) >>,
                       << >>, NoStyle, NoStyle)
        ELSE [DefaultText EXCEPT !.exists = FALSE]]

\* what the rules report for FixDoc: the first fill has the value of variable
\* k1, the second that of paint style S:1, the padding is off the scale, the
\* page lacks its state tags
FixFindings ==
    LET catalog == loadDSCatalog(GeigerKey) IN
    << ImportedFinding("n1", "fills", 1, "info", catalog.varRefs[1], VariableIdOfKey("k1")),
       StyleMatchFinding("n1", "fills", 2, "info", catalog.styleRefs[1]),
       Finding(<<"n1", "padding">>, "info", "consistency.padding", "n1",
               "Padding not using common spacing scale", "", TRUE, UpdatePaddingPayload(8), 0),
       Finding(<<PageName, "required-states">>, "info", "requiredStates", "n1",
               "Page requires state documentation", "", TRUE,
               CreateFramePayload("States", << "state:loading" >>), 0) >>

\* the same frame with its two fills in the other order, and what the rules
\* report for it: the fill with the value of variable k1 is the second
SwappedDoc ==
    [FixDoc EXCEPT !["n1"].fills = << FixDoc["n1"].fills[2], FixDoc["n1"].fills[1] >>]

SwappedFindings ==
    LET catalog == loadDSCatalog(GeigerKey) IN
    << StyleMatchFinding("n1", "fills", 1, "info", catalog.styleRefs[1]),
       ImportedFinding("n1", "fills", 2, "info", catalog.varRefs[1], VariableIdOfKey("k1")) >>
    \o SubSeq(FixFindings, 3, Len(FixFindings))

InitFix ==
    /\ Fresh
    /\ resolution = NoResolution
    /\ lookup = NoLookup
    /\ doc \in {FixDoc, SwappedDoc}
    /\ settingsStore = [DEFAULT_SETTINGS EXCEPT !.dsLibraryKey = GeigerKey]
    /\ DS_CATALOG = loadDSCatalog(GeigerKey)
    /\ inbox = << >>
    /\ ui = [InitialUI(settingsStore) EXCEPT
                !.findings = IF doc = FixDoc THEN FixFindings ELSE SwappedFindings,
                !.scannedNodes = 1, !.shownScan = 1]

NextFix ==
    \/ handleApplyFix
    \/ handleToggleResolved
    \/ OnApplyFix
    \/ OnUndoFix
    \/ \E k \in DOMAIN fixes : FixAfterNode(k)
    \/ \E k \in DOMAIN fixes : FixAfterHost(k)
    \/ \E k \in DOMAIN fixes : FixAfterFont(k)
    \/ \E k \in DOMAIN fixes : UndoAfterNode(k)
    \/ UIReceive
    \/ DeleteNode

SpecFix == InitFix /\ [][NextFix]_vars

(***************************************************************************)
(* Sessions: the panel asks for scans and saves settings, the user edits   *)
(* the document, the main thread runs its handlers between waits.          *)
(***************************************************************************)
\* handleRunScan: the Run Scan / Re-Run buttons are rendered only while the
\* panel is not scanning.  The request carries no settings; the field holds the
\* settings the panel shows when it asks, for the properties to compare with
handleRunScan ==
    /\ ~ui.scanning
    /\ used.scans < MaxScans
    /\ ui' = [ui EXCEPT !.scanning = TRUE, !.findings = << >>, !.shownScan = 0]
    /\ inbox' = Append(inbox, [Msg("RUN_SCAN") EXCEPT !.settings = ui.settings])
    /\ used' = [used EXCEPT !.scans = @ + 1]
    /\ UNCHANGED << doc, annotations, settingsStore, DS_CATALOG, importedVariables,
                    originalValues, scans, saves, outbox, notified, fixes, resolution, lookup >>

\* the changes the settings tab can make to the settings: the strictness and
\* the library selector (`e.target.value || undefined`)
SettingsChanges(settings) ==
    { [settings EXCEPT !.strictness = strictness] : strictness \in {"relaxed", "strict"} }
    \cup { [settings EXCEPT !.dsLibraryKey = lib] : lib \in {NoLibrary, GeigerKey} }

\* handleSettingsChange(newSettings): the settings tab stays open during a scan
handleSettingsChange ==
    /\ used.saves < MaxSaves
    /\ \E updated \in SettingsChanges(ui.settings) :
        /\ ui' = [ui EXCEPT !.settings = updated]
        /\ inbox' = Append(inbox, [Msg("SETTINGS_SAVE") EXCEPT !.settings = updated])
    /\ used' = [used EXCEPT !.saves = @ + 1]
    /\ UNCHANGED << doc, annotations, settingsStore, DS_CATALOG, importedVariables,
                    originalValues, scans, saves, outbox, notified, fixes, resolution, lookup >>

\* case "SETTINGS_SAVE": setSettings up to the read of the stored settings
OnSettingsSave ==
    /\ inbox # << >> /\ Head(inbox).type = "SETTINGS_SAVE"
    /\ \E v \in 1..MaxSaves :
        /\ saves[v].pc = "idle" /\ \A t \in 1..(v - 1) : saves[t].pc # "idle"
        /\ saves' = [saves EXCEPT ![v] = [@ EXCEPT !.pc = "read", !.settings = Head(inbox).settings]]
    /\ inbox' = Tail(inbox)
    /\ UNCHANGED << doc, annotations, settingsStore, DS_CATALOG, importedVariables,
                    originalValues, scans, outbox, ui, notified, fixes, used, resolution, lookup >>

\* setSettings from getSettings() to `await figma.clientStorage.setAsync(...)`:
\* Object.assign({}, current, settings) with a complete settings object is
\* that object
SaveAfterRead(v) ==
    /\ saves[v].pc = "read"
    /\ saves' = [saves EXCEPT ![v].pc = "write"]
    /\ UNCHANGED << doc, annotations, settingsStore, DS_CATALOG, importedVariables,
                    originalValues, scans, inbox, outbox, ui, notified, fixes, used, resolution, lookup >>

\* the write settled: stored and SETTINGS_SAVED, or rejected by the host and
\* caught by onmessage
SaveAfterWrite(v) ==
    /\ saves[v].pc = "write"
    /\ \E stored \in BOOLEAN :
        IF stored
        THEN /\ settingsStore' = saves[v].settings
             /\ saves' = [saves EXCEPT ![v].pc = "done", ![v].replaced = settingsStore]
             /\ Post(<< Msg("SETTINGS_SAVED") >>)
        ELSE /\ settingsStore' = settingsStore
             /\ saves' = [saves EXCEPT ![v].pc = "failed"]
             /\ Post(Caught("Storage write failed"))
    /\ UNCHANGED << doc, annotations, DS_CATALOG, importedVariables,
                    originalValues, scans, inbox, ui, notified, fixes, used, resolution, lookup >>

\* a page with one frame painted in the colour of variable k1, unbound, and a
\* text that uses a text style
SessionDoc ==
    [n \in NodeIds |->
        IF n = "n1"
        THEN FrameNode(<< Paint("SOLID", Blue, Unit, TRUE, NoBinding, FALSE) >>, << >>, NoStyle, NoStyle)
        ELSE TextNode(<< >>, "T:1", FALSE, FALSE, 14)]

\* the state after the plugin initialised: settings read, catalog loaded,
\* INIT received by the panel
Init ==
    /\ Fresh
    /\ resolution = NoResolution
    /\ lookup = NoLookup
    /\ doc = SessionDoc
    /\ settingsStore \in {[DEFAULT_SETTINGS EXCEPT !.dsLibraryKey = lib] : lib \in {NoLibrary, GeigerKey}}
    /\ DS_CATALOG = loadDSCatalog(settingsStore.dsLibraryKey)
    /\ inbox = << >>
    /\ ui = InitialUI(settingsStore)

Next ==
    \/ handleRunScan
    \/ handleSettingsChange
    \/ OnRunScan
    \/ \E s \in 1..MaxScans : ScanAfterSettings(s)
    \/ \E s \in 1..MaxScans : ScanAfterUsage(s)
    \/ \E s \in 1..MaxScans : ScanAfterImport(s)
    \/ OnSettingsSave
    \/ \E v \in 1..MaxSaves : SaveAfterRead(v)
    \/ \E v \in 1..MaxSaves : SaveAfterWrite(v)
    \/ UIReceive
    \/ DeleteNode

Spec == Init /\ [][Next]_vars

\* fix sessions on a page whose scan gave one finding, the bind-variable
\* finding of the frame's only fill; the user has just clicked Auto-fix on it:
\* the request is on its way and the row still shows the button
TwiceFindings ==
    << ImportedFinding("n1", "fills", 1, "info", loadDSCatalog(GeigerKey).varRefs[1],
                       VariableIdOfKey("k1")) >>

InitTwice ==
    /\ Fresh
    /\ resolution = NoResolution
    /\ lookup = NoLookup
    /\ doc = SessionDoc
    /\ settingsStore = [DEFAULT_SETTINGS EXCEPT !.dsLibraryKey = GeigerKey]
    /\ DS_CATALOG = loadDSCatalog(GeigerKey)
    /\ inbox = << [Msg("APPLY_FIX") EXCEPT !.findingId = TwiceFindings[1].id,
                                           !.nodeId = TwiceFindings[1].nodeId,
                                           !.fixPayload = TwiceFindings[1].fixPayload] >>
    /\ ui = [InitialUI(settingsStore) EXCEPT !.findings = TwiceFindings, !.scannedNodes = 2,
                                             !.shownScan = 1]

NextTwice ==
    \/ handleApplyFix
    \/ handleToggleResolved
    \/ OnApplyFix
    \/ OnUndoFix
    \/ \E k \in DOMAIN fixes : FixAfterNode(k)
    \/ \E k \in DOMAIN fixes : FixAfterHost(k)
    \/ \E k \in DOMAIN fixes : UndoAfterNode(k)
    \/ UIReceive
    \/ DeleteNode

SpecTwice == InitTwice /\ [][NextTwice]_vars

(***************************************************************************)
(* Rule runs: one scan over a document and settings drawn from bounded     *)
(* sets, nothing else going on.                                            *)
(***************************************************************************)
SeqsUpTo(S, n) == UNION {[1..k -> S] : k \in 0..n}

RuleFills ==
    { Paint("SOLID", Blue, Unit, TRUE, NoBinding, FALSE),          \* value of variable k1
      Paint("SOLID", Teal, NoOpacity, TRUE, NoBinding, FALSE),     \* value of variable k2
      Paint("SOLID", Green, Unit, TRUE, NoBinding, FALSE),         \* value of paint style S:1
      Paint("SOLID", Odd, Unit, TRUE, NoBinding, FALSE),           \* value of nothing
      Paint("SOLID", Odd, Unit, TRUE, "VariableID:9", FALSE),      \* bound
      Paint("SOLID", Blue, Unit, TRUE, "VariableID:2", FALSE),     \* bound, value of another token
      Paint("SOLID", Odd, Unit, TRUE, NoBinding, TRUE),            \* unbound, inferred by the host
      Paint("SOLID", Odd, Unit, FALSE, NoBinding, FALSE),          \* hidden
      Paint("SOLID", Odd, 0, TRUE, NoBinding, FALSE),              \* opacity 0
      Paint("GRADIENT_LINEAR", Odd, Unit, TRUE, NoBinding, FALSE) }

RuleStrokes ==
    { Paint("SOLID", Blue, Unit, TRUE, NoBinding, FALSE),
      Paint("SOLID", Odd, Unit, TRUE, NoBinding, FALSE),
      Paint("SOLID", Blue, Unit, TRUE, "VariableID:2", FALSE),
      Paint("SOLID", Odd, Unit, TRUE, NoBinding, TRUE) }

RuleSettings ==
    { [DEFAULT_SETTINGS EXCEPT !.dsLibraryKey = lib, !.strictness = m[1],
                               !.ignoreHiddenFills = m[2], !.ignoreZeroOpacity = m[2]] :
        lib \in LibraryKeys, m \in { <<"relaxed", FALSE>>, <<"strict", TRUE>> } }

RuleDocs ==
    { [n \in NodeIds |-> IF n = "n1" THEN FrameNode(fills, strokes, st[1], st[2]) ELSE DefaultText] :
        fills \in SeqsUpTo(RuleFills, MaxFills), strokes \in SeqsUpTo(RuleStrokes, MaxStrokes),
        st \in { <<NoStyle, NoStyle>>, <<"S:1", NoStyle>>, <<NoStyle, "S:1">> } }
    \cup
    { [n \in NodeIds |-> IF n = "n1" THEN DefaultFrame ELSE TextNode(<< >>, ts, bt, it, size)] :
        ts \in {NoStyle, "T:1"}, bt \in BOOLEAN, it \in BOOLEAN, size \in {12, 14} }
    \cup
    { [n \in NodeIds |-> IF n = "n1" THEN TextNode(<< >>, ts, FALSE, FALSE, 14)
                                     ELSE FrameNode(fills, << >>, NoStyle, NoStyle)] :
        ts \in {NoStyle, "T:1"}, fills \in SeqsUpTo(RuleFills, 1) }

\* the session has been initialised with the stored settings and the panel has
\* just asked for a scan (handleRunScan)
InitRule ==
    /\ Fresh
    /\ resolution = NoResolution
    /\ lookup = NoLookup
    /\ doc \in RuleDocs
    /\ settingsStore \in RuleSettings
    /\ DS_CATALOG = loadDSCatalog(settingsStore.dsLibraryKey)
    /\ inbox = << Msg("RUN_SCAN") >>
    /\ ui = [InitialUI(settingsStore) EXCEPT !.scanning = TRUE]

NextRule ==
    \/ OnRunScan
    \/ \E s \in 1..MaxScans : ScanAfterSettings(s)
    \/ \E s \in 1..MaxScans : ScanAfterUsage(s)
    \/ \E s \in 1..MaxScans : ScanAfterImport(s)

SpecRule == InitRule /\ [][NextRule]_vars

\* a resolution of one variable of a library for one mode, then its indexing
InitResolve ==
    /\ Fresh
    /\ lookup = NoLookup
    /\ doc = SessionDoc
    /\ settingsStore = DEFAULT_SETTINGS
    /\ DS_CATALOG = loadDSCatalog(settingsStore.dsLibraryKey)
    /\ inbox = << >>
    /\ ui = InitialUI(settingsStore)
    /\ \E fn \in {"color", "map"}, resolvedType \in {"COLOR", "FLOAT"}, modeId \in Range(ModeIds) :
        \E graph \in TokenGraphs(resolvedType) :
            /\ fn = "color" => resolvedType = "COLOR"
            /\ fn = "map" => ValueAt(graph["A"], modeId) # Undefined
            /\ resolution = Resolution(fn, resolvedType, graph, modeId)

NextResolve ==
    \/ ExtractMode
    \/ ResolveWithMap
    \/ ResolveColor
    \/ IndexVariable

SpecResolve == InitResolve /\ [][NextResolve]_vars

\* a token colour is indexed, then a document colour that differs from it by
\* at most the last digit of one channel and of the alpha is looked up
InitKey ==
    /\ Fresh
    /\ doc = SessionDoc
    /\ settingsStore = DEFAULT_SETTINGS
    /\ DS_CATALOG = loadDSCatalog(settingsStore.dsLibraryKey)
    /\ inbox = << >>
    /\ ui = InitialUI(settingsStore)
    /\ resolution = NoResolution
    /\ \E r \in Channels, g \in {0, Unit \div 2}, a \in Alphas, dr \in Noise, da \in Noise :
        /\ InRange(r + dr) /\ InRange(a + da)
        /\ lookup = [NoLookup EXCEPT !.pc = "start",
                                     !.token = [r |-> r, g |-> g, b |-> 0, a |-> a],
                                     !.color = [r |-> r + dr, g |-> g, b |-> 0, a |-> a + da]]

NextKey ==
    \/ IndexColor
    \/ LookupColor

SpecKey == InitKey /\ [][NextKey]_vars

(***************************************************************************)
(* Properties of the rule evaluator                                        *)
(***************************************************************************)
Started == {s \in 1..MaxScans : scans[s].pc # "idle"}
Done == {s \in 1..MaxScans : scans[s].pc = "done"}

\* the colour findings a scan holds for paint i of one property of an element
ColorFindingsAt(findings, nodeId, property, i) ==
    SelectSeq(findings, LAMBDA f : f.nodeId = nodeId /\ f.ruleId = ColorRule(property)
                                   /\ f.paintIndex = i)

\* the paints of the elements a scan evaluates
PaintSlots(s) ==
    UNION { UNION { { <<n, property, i>> : i \in DOMAIN PaintsOf(doc[n], property) } :
                    property \in {"fills", "strokes"} } :
            n \in {m \in Range(scans[s].nodes) : HasPaints(doc[m])} }

PaintAt(slot) == PaintsOf(doc[slot[1]], slot[2])[slot[3]]

\* a solid paint the user sees, whatever the ignore-settings are
VisibleSolid(paint) == paint.type = "SOLID" /\ paint.visible /\ paint.opacity # 0

\* the colour key of the paint is indexed for some variable / paint style
InCatalog(catalog, paint) ==
    \/ \E ref \in Range(catalog.varRefs) : normalizeRgba(PaintColor(paint)) \in ref.colors
    \/ \E ref \in Range(catalog.styleRefs) : normalizeRgba(PaintColor(paint)) \in ref.colors

\* the catalog was built from no palette: nothing selected, or nothing bundled
\* for the selection
BuiltEmpty(catalog) == catalog.loaded /\ ~HasPalette(catalog.selectedLibraryKey)

\* C2: with a catalog built empty, a finished scan holds no block finding of
\* the colour rule
C2_NoBlockWhenSourceMissing ==
    \A s \in Done :
        BuiltEmpty(DS_CATALOG) =>
            \A k \in DOMAIN scans[s].findings :
                scans[s].findings[k].ruleId \in {ColorRule("fills"), ColorRule("strokes")}
                    => scans[s].findings[k].severity # "block"

\* C8: a fill or stroke paint that carries a variable binding has no finding,
\* whatever its colour matches in the catalog
C8_BoundNeverFinding ==
    \A s \in Started : \A slot \in PaintSlots(s) :
        PaintAt(slot).bound # NoBinding
            => ColorFindingsAt(scans[s].findings, slot[1], slot[2], slot[3]) = << >>

\* a finished scan that evaluated a visible bound paint whose colour is indexed
\* for a token, next to a paint that did get a finding
C8_Witness ==
    \E s \in Done :
        /\ scans[s].findings # << >>
        /\ \E slot \in PaintSlots(s) :
            /\ PaintAt(slot).bound # NoBinding /\ VisibleSolid(PaintAt(slot))
            /\ StyleIdOf(doc[slot[1]], slot[2]) = NoStyle
            /\ \E ref \in Range(DS_CATALOG.varRefs) :
                normalizeRgba(PaintColor(PaintAt(slot))) \in ref.colors

\* C9: a visible unbound paint for which the host infers a token has no
\* finding, and neither has a text element with inferred typography
C9_InferredNeverFinding ==
    \A s \in Done :
        /\ \A slot \in PaintSlots(s) :
            (VisibleSolid(PaintAt(slot)) /\ PaintAt(slot).bound = NoBinding /\ PaintAt(slot).inferred)
                => ColorFindingsAt(scans[s].findings, slot[1], slot[2], slot[3]) = << >>
        /\ \A n \in Range(scans[s].nodes) :
            (doc[n].type = "TEXT" /\ doc[n].inferredTypography)
                => \A k \in DOMAIN scans[s].findings : scans[s].findings[k].id # <<n, "typography">>

Finished(kind) == {k \in DOMAIN fixes : fixes[k].kind = kind /\ fixes[k].pc = "done"}

\* invocation k just ended: nothing was written since
JustEnded(k) == fixes[k].pc = "done" /\ used.changes = fixes[k].end

\* between its start and its end nothing but invocation k wrote
Alone(k) == fixes[k].end - fixes[k].start = fixes[k].docWrites + fixes[k].journalWrites

\* undo u came right after apply a of the same finding: a succeeded, u ended
\* without an error, and from the start of a to the end of u nothing but the
\* two wrote
UndoneRightAfter(a, u) ==
    /\ fixes[a].outcome = "applied" /\ fixes[u].outcome \in {"undone", "nothing to undo"}
    /\ fixes[a].findingId = fixes[u].findingId /\ fixes[a].nodeId = fixes[u].nodeId
    /\ fixes[a].end + fixes[u].docWrites + fixes[u].journalWrites = fixes[u].end
    /\ Alone(a)

\* C3: an apply of a property fix followed at once by the undo of the same
\* finding leaves every element as it was when the apply began
C3_ApplyUndoRestores ==
    \A a \in Finished("apply"), u \in Finished("undo") :
        (UndoneRightAfter(a, u) /\ JustEnded(u) /\ fixes[a].fixPayload.type # "create-frame")
            => doc = fixes[a].docStart

\* a fill was bound to its token, the binding was undone, the fill is unbound
C3_Witness ==
    \E a \in Finished("apply"), u \in Finished("undo") :
        /\ UndoneRightAfter(a, u) /\ JustEnded(u)
        /\ fixes[a].fixPayload.type = "bind-variable" /\ fixes[a].docWrites = 1
        /\ fixes[u].outcome = "undone" /\ fixes[u].docWrites = 1
        /\ doc["n1"].fills[1].bound = NoBinding

\* undo u ended no earlier than undo t, and no apply stored an entry for the
\* finding in between
NextUndoAfter(t, u) ==
    /\ t # u /\ fixes[t].findingId = fixes[u].findingId
    /\ fixes[t].outcome = "undone" /\ fixes[u].end >= fixes[t].end
    /\ \A a \in Finished("apply") :
        (fixes[a].findingId = fixes[u].findingId /\ fixes[a].journalWrites > 0)
            => fixes[a].end <= fixes[t].end

\* C4 as stated: an undo that finds no journal entry writes nothing and says
\* that there is nothing to undo
C4_UndoWithoutEntrySaysNothingToUndo ==
    \A u \in Finished("undo") :
        ~fixes[u].hadEntry =>
            /\ fixes[u].docWrites = 0 /\ fixes[u].journalWrites = 0
            /\ fixes[u].outcome = "nothing to undo"

\* C4, amended: an undo that finds no journal entry writes nothing; it says
\* that there is nothing to undo if the element still exists and ends with the
\* error "Node not found" otherwise; and after an undo that restored, every
\* further undo of the finding finds no entry and writes nothing
C4_UndoWithoutEntryIsNoOp ==
    /\ \A u \in Finished("undo") :
        ~fixes[u].hadEntry =>
            /\ fixes[u].docWrites = 0 /\ fixes[u].journalWrites = 0
            /\ \/ fixes[u].outcome = "nothing to undo" /\ fixes[u].posted = ""
               \/ fixes[u].outcome = "error" /\ fixes[u].posted = "ERROR"
                    /\ ~doc[fixes[u].nodeId].exists
            /\ JustEnded(u) /\ fixes[u].outcome = "nothing to undo"
                => /\ notified[Len(notified)] = "Cannot undo - original value not found"
                   /\ doc = fixes[u].docStart \/ ~Alone(u)
    /\ \A t \in Finished("undo"), u \in Finished("undo") :
        NextUndoAfter(t, u) => ~fixes[u].hadEntry /\ fixes[u].docWrites = 0

\* a fix was applied and undone, and a second undo of it found nothing
C4_Witness ==
    \E t \in Finished("undo"), u \in Finished("undo") :
        /\ NextUndoAfter(t, u) /\ fixes[t].docWrites = 1
        /\ fixes[u].outcome = "nothing to undo" /\ JustEnded(u)
        /\ \E a \in Finished("apply") : fixes[a].findingId = fixes[u].findingId

\* C5: the undo of an applied create-annotation fix removes the element the
\* fix created
C5_UndoDeletesAnnotation ==
    \A a \in Finished("apply"), u \in Finished("undo") :
        (UndoneRightAfter(a, u) /\ JustEnded(u) /\ fixes[a].fixPayload.type = "create-frame")
            => annotations = fixes[a].annStart

\* C6: an apply that ends with an error leaves the journal as it was and
\* sends an ERROR to the panel
C6_FailedApplyKeepsJournal ==
    \A a \in Finished("apply") :
        fixes[a].outcome = "error" =>
            /\ fixes[a].posted = "ERROR"
            /\ fixes[a].journalWrites = 0
            /\ (JustEnded(a) /\ Alone(a)) => originalValues = fixes[a].journalStart

\* a binding failed after the original paints had been read: no entry, ERROR
C6_Witness ==
    \E a \in Finished("apply") :
        /\ fixes[a].outcome = "error" /\ JustEnded(a) /\ Alone(a)
        /\ fixes[a].originalValue # NoSnapshot
        /\ fixes[a].findingId \notin DOMAIN originalValues
        /\ \E i \in DOMAIN outbox : outbox[i].type = "ERROR" /\ outbox[i].message = "Variable not found"

\* C7: an apply that ends with an error has left the document as it was when
\* the apply began: no element changed, no annotation element remains
C7_FailedApplyChangesNothing ==
    \A a \in Finished("apply") :
        (fixes[a].outcome = "error" /\ JustEnded(a) /\ Alone(a))
            => doc = fixes[a].docStart /\ annotations = fixes[a].annStart

(***************************************************************************)
(* Properties of the scan protocol                                         *)
(***************************************************************************)
\* C1: the findings the panel shows are never those of a scan that a later
\* scan has superseded
C1_StaleScanNeverShown ==
    ui.shownScan # 0 => \A s \in Started : s <= ui.shownScan

(***************************************************************************)
(* The scan session: failures, messages, order, catalog                    *)
(***************************************************************************)
\* the scans that ended in the catch of runScan
Failed == { s \in 1..MaxScans : scans[s].pc = "failed" }

\* C11: a failure while evaluating one element never aborts the scan: no scan
\* ends in the catch of runScan, with an ERROR in place of the findings of
\* the other elements
C11_ElementFailureNeverAborts ==
    \A s \in 1..MaxScans :
        scans[s].pc = "failed" =>
            /\ scans[s].log # << >>
            /\ scans[s].log[Len(scans[s].log)] = "SCAN_COMPLETE"

Terminal(type) == type \in {"SCAN_COMPLETE", "ERROR"}

\* what one scan has sent so far is well formed: SCAN_STARTED first, a terminal
\* message only in the last place, and one there exactly when the scan has ended
AnsweredInOrder(s) ==
    LET log == scans[s].log IN
    /\ (log = << >>) <=> (scans[s].pc = "idle")
    /\ log # << >> => log[1] = "SCAN_STARTED"
    /\ \A i \in DOMAIN log : Terminal(log[i]) => i = Len(log)
    /\ (scans[s].pc \in {"done", "failed"}) <=> (log # << >> /\ Terminal(log[Len(log)]))
    /\ scans[s].pc = "done" => log[Len(log)] = "SCAN_COMPLETE"

\* a scan that waits on the host: for the settings, the usage report or an import
Suspended(s) == scans[s].pc \in {"settings", "usage", "import"}

\* how far a scan has come: its position in runScan, then its place in the
\* colour loop
Position(scan) ==
    LET at == CASE scan.pc = "idle" -> 0 [] scan.pc = "settings" -> 1 [] scan.pc = "usage" -> 2
                [] scan.pc = "import" -> 3 [] OTHER -> 4
        property == IF scan.cur.property = "fills" THEN 0 ELSE 1
    IN  << at, scan.cur.n, property, scan.cur.i >>

RECURSIVE Before(_, _)
Before(p, q) ==
    /\ p # << >>
    /\ Head(p) < Head(q) \/ (Head(p) = Head(q) /\ Before(Tail(p), Tail(q)))

\* C12: every scan sends progress messages and then exactly one terminal
\* message (SCAN_COMPLETE with the findings and the element count, or ERROR)
\* and nothing after it; a scan that waits on the host can always be resumed
\* and every step moves it forward, so each started scan gets to its terminal
\* message once the host has settled its waits
C12_OneTerminalMessageLast ==
    /\ [](\A s \in 1..MaxScans :
            /\ AnsweredInOrder(s)
            /\ Suspended(s) =>
                ENABLED (ScanAfterSettings(s) \/ ScanAfterUsage(s) \/ ScanAfterImport(s)))
    /\ [][\A s \in 1..MaxScans :
            scans'[s] # scans[s] => Before(Position(scans[s]), Position(scans'[s]))]_vars

\* a scan has ended with SCAN_COMPLETE after progress messages, the message
\* carries the count of the collected elements, and another scan has ended
\* with ERROR
C12_Witness ==
    \E s, t \in 1..MaxScans :
        /\ scans[s].pc = "done" /\ scans[t].pc = "failed"
        /\ Len(scans[s].log) > 3
        /\ \E i \in DOMAIN scans[s].log : scans[s].log[i] = "SCAN_PROGRESS"
        /\ \E i \in DOMAIN outbox :
            /\ outbox[i].type = "SCAN_COMPLETE" /\ outbox[i].scan = s
            /\ outbox[i].scannedNodes = Len(scans[s].nodes)

\* the place of an element in the traversal of the scan
Visit(scan, nodeId) == CHOOSE k \in DOMAIN scan.nodes : scan.nodes[k] = nodeId

\* C13: the findings of a finished scan are in the traversal order of their
\* elements: a finding never precedes a finding of an element visited earlier
C13_FindingsInTraversalOrder ==
    \A s \in Done :
        \A i, j \in DOMAIN scans[s].findings :
            i < j => Visit(scans[s], scans[s].findings[i].nodeId)
                        <= Visit(scans[s], scans[s].findings[j].nodeId)

\* the scans that have loaded the catalog and not yet sent their terminal message
Matching == { s \in 1..MaxScans : scans[s].pc = "import" }

\* C14: while a scan is between its catalog load and its terminal message,
\* the catalog that answers its lookups is the build the scan loaded
C14_CatalogStableDuringScan ==
    \A s \in Matching : DS_CATALOG = scans[s].build

(***************************************************************************)
(* Properties of alias resolution and of the indexing of a variable        *)
(***************************************************************************)
Resolved == resolution.pc \in {"done", "indexed"}

\* C15: alias resolution terminates for every graph and every mode: every
\* call but the last adds a variable that was not yet visited, so there are
\* never more calls than variables plus one, and a pending call can be made
C15_ResolutionTerminates ==
    /\ resolution.calls <= Cardinality(TokenIds) + 1
    /\ resolution.pc = "call" =>
        /\ resolution.calls = Cardinality(resolution.visited)
        /\ resolution.calls <= Cardinality(TokenIds)
        /\ ENABLED (ResolveColor \/ ResolveWithMap)

\* a resolution went all the way round a cycle of three and ended
C15_Witness ==
    /\ Resolved
    /\ resolution.calls = Cardinality(TokenIds) + 1
    /\ resolution.visited = TokenIds

\* the mode whose entry the resolution of a variable for modeId is to use: the
\* requested mode when the variable has it, the first mode it has otherwise
EntryMode(valuesByMode, modeId) ==
    IF ValueAt(valuesByMode, modeId) # Undefined THEN modeId
    ELSE IF valuesByMode # << >> THEN valuesByMode[1][1]
    ELSE NoKey

\* the variable the entry of `id` for the mode aliases, if it is an alias
AliasOf(graph, id, modeId) ==
    LET value == ValueAt(graph[id], EntryMode(graph[id], modeId)) IN
    IF id \in DOMAIN graph /\ isAlias(value) THEN value.id ELSE NoKey

RECURSIVE AliasPath(_, _, _, _)
AliasPath(graph, id, modeId, n) ==
    IF n = 0 \/ id = NoKey THEN << >>
    ELSE << id >> \o AliasPath(graph, AliasOf(graph, id, modeId), modeId, n - 1)

\* the variables reached from `id` by following one alias or more
AliasedFrom(graph, id, modeId) ==
    Range(AliasPath(graph, AliasOf(graph, id, modeId), modeId, Cardinality(TokenIds)))

OnCycle(graph, id, modeId) == id \in AliasedFrom(graph, id, modeId)

\* C16: the resolution of a variable that lies on an alias cycle returns null
C16_CycleIsUnresolved ==
    (Resolved /\ OnCycle(resolution.graph, resolution.start, resolution.modeId))
        => resolution.result = Unresolved

\* A -> B -> C -> A has been resolved from A
C16_Witness ==
    /\ Resolved
    /\ AliasPath(resolution.graph, resolution.start, resolution.modeId, 4) = << "A", "B", "C", "A" >>
    /\ resolution.result = Unresolved

\* the concrete value at the end of the alias chain that starts at `id`
ChainEnd(graph, id, modeId) ==
    LET path == AliasPath(graph, id, modeId, Cardinality(TokenIds) + 1)
        last == path[Len(path)]
    IN  IF Len(path) > Cardinality(TokenIds) THEN Unresolved
        ELSE IF EntryMode(graph[last], modeId) = NoKey THEN Unresolved
        ELSE ValueAt(graph[last], EntryMode(graph[last], modeId))

\* C17: the resolution of a variable through an acyclic alias chain returns
\* the concrete value stored at the end of the chain
C17_ChainResolvesToItsEnd ==
    (Resolved /\ ChainEnd(resolution.graph, resolution.start, resolution.modeId) # Unresolved)
        => resolution.result = ChainEnd(resolution.graph, resolution.start, resolution.modeId)

\* C18: the value a call goes on with is the variable's entry for the
\* requested mode whenever the variable has one, and the entry of its first
\* mode only when it has none
C18_RequestedModeFirst ==
    \A i \in DOMAIN resolution.used :
        resolution.used[i].mode =
            EntryMode(resolution.graph[resolution.used[i].id], resolution.modeId)

\* C19: a FLOAT variable whose value for the mode is an alias is indexed
\* under the number at the end of its alias chain
C19_AliasedNumberIsIndexed ==
    ( /\ resolution.pc = "indexed" /\ resolution.resolvedType = "FLOAT"
      /\ isAlias(ValueAt(resolution.graph[resolution.start], resolution.modeId))
      /\ isPrimitive(resolution.result) )
        => normalizeNumber(resolution.result.value) \in resolution.index

\* C20: a colour variable is indexed under the value of every mode: under the
\* resolvedValues entry of the mode when there is one, under the value the
\* resolver finds by following the aliases when there is none
C20_MissingModesResolvedOnDemand ==
    (resolution.pc = "indexed" /\ resolution.resolvedType = "COLOR")
        => LET entry == ValueAt(resolution.resolvedValues, resolution.modeId) IN
           /\ isRgba(entry) => normalizeRgba(entry) \in resolution.index
           /\ (entry = Undefined /\ isRgba(resolution.result))
                => normalizeRgba(resolution.result) \in resolution.index

(***************************************************************************)
(* Sessions with a scan in flight while the panel is free again: the first *)
(* scan waits for its usage report, and the panel has shown the ERROR of   *)
(* another request (the catch of onmessage, of the comparison or of the    *)
(* palette extraction), which brings the Run Scan button back.  The page   *)
(* has a frame with two fills in the colour of variable k1.                *)
(***************************************************************************)
ReselectDoc ==
    [n \in NodeIds |->
        IF n = "n1"
        THEN FrameNode(<< Paint("SOLID", Blue, Unit, TRUE, NoBinding, FALSE),
                          Paint("SOLID", Blue, Unit, TRUE, NoBinding, FALSE) >>, << >>, NoStyle, NoStyle)
        ELSE TextNode(<< >>, "T:1", FALSE, FALSE, 14)]

InitReselect ==
    /\ resolution = NoResolution
    /\ lookup = NoLookup
    /\ doc = ReselectDoc
    /\ annotations = << >>
    /\ importedVariables = [k \in {} |-> NoVariable]
    /\ originalValues = [id \in {} |-> NoSnapshot]
    /\ settingsStore \in {[DEFAULT_SETTINGS EXCEPT !.strictness = strictness] :
                             strictness \in {"relaxed", "strict"}}
    /\ DS_CATALOG = loadDSCatalog(settingsStore.dsLibraryKey)
    /\ scans = [s \in 1..MaxScans |->
                  IF s = 1
                  THEN Logged([IdleScan EXCEPT !.pc = "usage", !.settings = settingsStore,
                                               !.asked = settingsStore,
                                               !.nodes = getAllNodesToScan(doc, settingsStore)],
                              << Msg("SCAN_STARTED"), Progress("Collected nodes"),
                                 Progress("Detecting library usage...") >>)
                  ELSE IdleScan]
    /\ saves = [v \in 1..MaxSaves |-> IdleSave]
    /\ inbox = << >>
    /\ outbox = << >>
    /\ notified = << >>
    /\ fixes = << >>
    /\ ui = InitialUI(settingsStore)
    /\ used = [scans |-> 1, saves |-> 0, edits |-> 0, applies |-> 0, undos |-> 0, marks |-> 0,
               changes |-> 0]

SpecReselect == InitReselect /\ [][Next]_vars

(***************************************************************************)
(* Properties of the catalog lookups                                       *)
(***************************************************************************)
\* C21: matchColor returns null only when no catalog has been built: the
\* lookup of a paint's colour in a built catalog is never null
C21_NullOnlyWithoutCatalog ==
    \A s \in Done : \A slot \in PaintSlots(s) :
        (VisibleSolid(PaintAt(slot)) /\ PaintAt(slot).bound = NoBinding)
            => (matchColor(DS_CATALOG, PaintColor(PaintAt(slot))).null => ~DS_CATALOG.loaded)

\* C22: a document colour that differs from a token's colour only in the
\* last digit of a channel or of the alpha is found under the token's key
C22_NoiseSameKey ==
    lookup.pc = "matched" => lookup.matched

\* a save that went through and changed the selected library
Reselected(v) ==
    saves[v].pc = "done" /\ saves[v].settings.dsLibraryKey # saves[v].replaced.dsLibraryKey

\* the scan waits for an import and has a lookup to make after it: a later
\* fill of the same element that is visible, solid and unbound
LookupAhead(s) ==
    LET scan == scans[s]
        node == doc[scan.nodes[scan.cur.n]]
    IN  /\ node.exists /\ scan.cur.property = "fills"
        /\ \E i \in DOMAIN node.fills :
            i > scan.cur.i /\ VisibleSolid(node.fills[i]) /\ node.fills[i].bound = NoBinding

\* C23: after the selected library has changed, a scan that the panel asked
\* for with the new selection and that has read it is not answered from the
\* catalog built for the selection before the change: when the scan is
\* between two lookups, the catalog that will answer the next one is not
\* that build
C23_RebuiltBeforeConsulted ==
    \A s \in Matching : \A v \in DOMAIN saves :
        (/\ Reselected(v)
         /\ scans[s].asked = saves[v].settings
         /\ scans[s].settings = saves[v].settings
         /\ LookupAhead(s))
            => DS_CATALOG.selectedLibraryKey # saves[v].replaced.dsLibraryKey

(***************************************************************************)
(* Properties of the findings for matched tokens                           *)
(***************************************************************************)
\* the scan was waiting for the import of its matched variable and the host
\* has answered with no handle: the key is still not in the import cache
ImportFailed(s) ==
    /\ scans[s].pc = "import" /\ scans'[s].pc \in {"import", "done"}
    /\ scans'[s] # scans[s]
    /\ scans[s].varRef.variableKey \notin DOMAIN importedVariables'

C25_EveryRequestAnswered ==
    \A k \in DOMAIN fixes :
        fixes[k].pc = "done" => fixes[k].posted \in {"FIX_APPLIED", "FIX_UNDONE", "ERROR"}

(***************************************************************************)
(* Properties of the finding ids                                           *)
(***************************************************************************)
\* C26: the findings of one finished scan have pairwise different ids, so an
\* id (the key of the journal and of the panel's resolved map) stands for one
\* finding; an element with several unbound solid fills or strokes included
C26_FindingIdsUnique ==
    \A s \in Done :
        \A i, j \in DOMAIN scans[s].findings :
            i # j => scans[s].findings[i].id # scans[s].findings[j].id

(***************************************************************************)
(* Properties of the bind-to-token fix                                     *)
(***************************************************************************)
\* C27: when a bind-variable fix has been acknowledged as applied, the paint
\* that the finding was reported for (the one whose value matched the token
\* in the scan) is bound to the token of the payload, and every other paint
\* of the list is as it was when the apply began
C27_BindsTheMatchedPaint ==
    \A k \in Finished("apply") :
        (/\ fixes[k].fixPayload.type = "bind-variable" /\ fixes[k].outcome = "applied"
         /\ JustEnded(k) /\ Alone(k))
            => \A n \in DOMAIN ui.findings :
                LET f == ui.findings[n]
                    p == fixes[k].fixPayload
                    paints == PaintsOf(doc[f.nodeId], p.property)
                    before == PaintsOf(fixes[k].docStart[f.nodeId], p.property)
                IN  (f.id = fixes[k].findingId /\ f.fixPayload = p)
                        => /\ paints[f.paintIndex].bound = p.variableId
                           /\ \A j \in DOMAIN paints : j # f.paintIndex => paints[j] = before[j]

(***************************************************************************)
(* Properties of the journal under repeated applies                        *)
(***************************************************************************)
\* applies a and b, in this order, of one finding were both acknowledged, undo
\* u of the finding began after both had ended and restored a value, and from
\* the start of a to the end of u nothing but the three wrote: no undo of the
\* finding and no edit in between
AppliedTwiceThenUndone(a, b, u) ==
    /\ a < b
    /\ fixes[a].outcome = "applied" /\ fixes[b].outcome = "applied" /\ fixes[u].outcome = "undone"
    /\ fixes[a].findingId = fixes[u].findingId /\ fixes[b].findingId = fixes[u].findingId
    /\ fixes[a].fixPayload = fixes[b].fixPayload
    /\ fixes[u].start >= fixes[a].end /\ fixes[u].start >= fixes[b].end
    /\ fixes[u].end - fixes[a].start =
          fixes[a].docWrites + fixes[a].journalWrites + fixes[b].docWrites + fixes[b].journalWrites
          + fixes[u].docWrites + fixes[u].journalWrites

\* C28: when the fix of one finding was applied twice with no undo in
\* between, the next undo leaves every element as it was before the first
\* apply
C28_UndoAfterTwoAppliesRestores ==
    \A a, b \in Finished("apply"), u \in Finished("undo") :
        (AppliedTwiceThenUndone(a, b, u) /\ JustEnded(u)) => doc = fixes[a].docStart

(***************************************************************************)
(* Properties of the settings a scan evaluates with                        *)
(***************************************************************************)
\* C29: a scan that the panel asked for after it had sent a settings-save
\* request (it showed the settings of that request when it asked) evaluates
\* with those settings, also when it has read the stored settings while the
\* save still waits at a storage call
C29_ScanReadsSavedSettings ==
    \A s \in 1..MaxScans : \A v \in 1..MaxSaves :
        (/\ scans[s].pc = "usage"
         /\ saves[v].pc \in {"read", "write"}
         /\ scans[s].asked = saves[v].settings
         /\ scans[s].settings = settingsStore)
            => scans[s].settings = saves[v].settings

(***************************************************************************)
(* Properties of the import cache                                          *)
(***************************************************************************)
\* C30: a token is imported at most once in a session: no scan waits for the
\* host to import a token that is in the import cache already, so no second
\* import of it is made and no entry of the cache is set again
C30_NoImportOfCachedToken ==
    \A s \in 1..MaxScans :
        scans[s].pc = "import" => scans[s].varRef.variableKey \notin DOMAIN importedVariables

====
